---- MODULE Spec2Model ----
(***************************************************************************)
(* Model of the forecasting and atmospheric-statistics core of             *)
(* gridcast-renewables (src/lib/models/*.ts, src/lib/utils/                *)
(* atmosphericResearch.ts, the POST /api/forecast route), of the           *)
(* POST /api/long-term and GET /api/national-map routes, of the location   *)
(* history kept in localStorage and of the BatchAnalysis component.        *)
(*                                                                         *)
(* JavaScript numbers are modelled as exact rationals <<n, d>> in lowest   *)
(* terms with d > 0, plus the three non-finite values NaN = <<0, 0>>,      *)
(* +Infinity = <<1, 0>> and -Infinity = <<-1, 0>>.  A field that is        *)
(* absent (undefined) is the empty tuple <<>>.  The power models and the   *)
(* quality report compute with these exactly.  The statistics proper       *)
(* (mean, standard deviation, correlation, regression, z-score) compute in *)
(* IEEE 754 binary64 with its rounding, on doubles read from the samples.  *)
(***************************************************************************)
EXTENDS Integers, Sequences, FiniteSets, TLC

VARIABLES
    asset,            \* the AssetConfig of the request (SolarAsset | WindAsset)
    referenceHeight,  \* generateWindForecast's referenceHeight argument
    weatherData,      \* the HourlyWeatherData[] series given to the call
    call,             \* which exported function / handler has run ("none" before)
    arg,              \* the scalar argument of a direct model call (else Undef)
    values,           \* the number[] given to a statistics call (else empty)
    dataArg,          \* the Record<string, number[]> given to calculateCorrelationMatrix
    timestampsArg,    \* the timestamps given to analyzeTrend / detectAnomalies
    thresholdArg,     \* detectAnomalies' threshold argument (undefined: left out)
    result,           \* what the call returned or threw
    storage,          \* localStorage's gridcast_location_history item, parsed
    clock,            \* Date.now()
    historyCall,      \* the storage function that ran last, with its arguments
    savedAt,          \* per id, the number of the save that put it in the history
    saves,            \* how many times saveLocationToHistory has run
    locations,        \* BatchAnalysis: the BatchLocation[] parsed from the CSV
    isProcessing,     \* BatchAnalysis: the isProcessing state
    progress,         \* BatchAnalysis: the progress state (null before a run)
    results,          \* BatchAnalysis: the results state
    batchResults,     \* processBatch: its local batchResults array
    awaiting,         \* processBatch: what the loop is suspended on
    mapRequest,       \* national map: the type and hour of the GET request
    mapStep,          \* national map: where the handler is suspended
    batchStart,       \* national map: i, the grid index the batch starts at
    inFlight,         \* national map: grid indices whose weather request is out
    weatherReplies,   \* national map: per grid index, what Open-Meteo answered
    batchPromises,    \* national map: per batch slot, what its promise resolved to
    validPoints,      \* national map: the validPoints array
    mapResponse       \* national map: the response of the handler

\* the variables of the forecast, statistics and analysis calls and routes
callVars ==
    <<asset, referenceHeight, weatherData, call, arg, values, dataArg,
      timestampsArg, thresholdArg, result>>

\* the variables of the location history in the browser
historyVars == <<storage, clock, historyCall, savedAt, saves>>

\* the variables of the BatchAnalysis component and its processBatch run
batchVars == <<locations, isProcessing, progress, results, batchResults, awaiting>>

\* the variables of one GET /api/national-map request
mapVars ==
    <<mapRequest, mapStep, batchStart, inFlight, weatherReplies, batchPromises,
      validPoints, mapResponse>>

\* the variables the calls and routes never touch
clientVars == <<historyVars, batchVars, mapVars>>

vars == <<callVars, clientVars>>

----------------------------------------------------------------------------
(* JavaScript number arithmetic                                            *)

Undef == <<>>
NaN == <<0, 0>>
PosInf == <<1, 0>>
NegInf == <<-1, 0>>

IsDefined(x) == x # Undef
IsNaN(x) == x = NaN
IsFinite(x) == x[2] # 0

Abs(n) == IF n < 0 THEN -n ELSE n
Sign(n) == IF n < 0 THEN -1 ELSE IF n > 0 THEN 1 ELSE 0

RECURSIVE GCD(_, _)
GCD(a, b) == IF b = 0 THEN a ELSE GCD(b, a % b)

\* the rational n/d (d # 0) in lowest terms with a positive denominator
Q(n, d) ==
    LET g == GCD(Abs(n), Abs(d))
        s == IF d < 0 THEN -1 ELSE 1
    IN  <<(s * n) \div g, (s * d) \div g>>

N(n) == <<n, 1>>

Add(a, b) ==
    IF IsNaN(a) \/ IsNaN(b) THEN NaN
    ELSE IF IsFinite(a) /\ IsFinite(b)
         THEN LET g == GCD(a[2], b[2])
              IN  Q(a[1] * (b[2] \div g) + b[1] * (a[2] \div g), (a[2] \div g) * b[2])
    ELSE IF ~IsFinite(a) /\ ~IsFinite(b) THEN (IF a = b THEN a ELSE NaN)
    ELSE IF IsFinite(a) THEN b ELSE a

Neg(a) == <<-a[1], a[2]>>

Sub(a, b) == Add(a, Neg(b))

Mul(a, b) ==
    IF IsNaN(a) \/ IsNaN(b) THEN NaN
    ELSE IF IsFinite(a) /\ IsFinite(b)
         THEN LET g1 == GCD(Abs(a[1]), b[2])
                  g2 == GCD(Abs(b[1]), a[2])
              IN  Q((a[1] \div g1) * (b[1] \div g2), (a[2] \div g2) * (b[2] \div g1))
    ELSE IF a[1] = 0 \/ b[1] = 0 THEN NaN
    ELSE <<Sign(a[1]) * Sign(b[1]), 0>>

\* a / b as JavaScript evaluates it: x/0 is +-Infinity, 0/0 is NaN
Div(a, b) ==
    IF IsNaN(a) \/ IsNaN(b) THEN NaN
    ELSE IF IsFinite(a) /\ IsFinite(b)
         THEN IF b[1] = 0
              THEN (IF a[1] = 0 THEN NaN ELSE <<Sign(a[1]), 0>>)
              ELSE Mul(a, Q(b[2], b[1]))
    ELSE IF ~IsFinite(a) /\ ~IsFinite(b) THEN NaN
    ELSE IF IsFinite(a) THEN N(0)
    ELSE <<Sign(a[1]) * (IF b[1] < 0 THEN -1 ELSE 1), 0>>

\* a < b; every comparison with NaN is false
Lt(a, b) ==
    IF IsNaN(a) \/ IsNaN(b) THEN FALSE
    ELSE IF IsFinite(a) /\ IsFinite(b) THEN Sub(a, b)[1] < 0
    ELSE IF ~IsFinite(a) /\ ~IsFinite(b) THEN a[1] < b[1]
    ELSE IF IsFinite(a) THEN b[1] > 0 ELSE a[1] < 0

Gt(a, b) == Lt(b, a)
Le(a, b) == ~IsNaN(a) /\ ~IsNaN(b) /\ ~Lt(b, a)
Ge(a, b) == Le(b, a)

\* Math.max / Math.min: NaN if either argument is NaN
MathMax(a, b) == IF IsNaN(a) \/ IsNaN(b) THEN NaN ELSE IF Lt(a, b) THEN b ELSE a
MathMin(a, b) == IF IsNaN(a) \/ IsNaN(b) THEN NaN ELSE IF Lt(b, a) THEN b ELSE a

\* Math.pow(x, 3)
Cube(x) == Mul(x, Mul(x, x))

\* the ?? operator: the default when the field is absent
OrDefault(x, dflt) == IF IsDefined(x) THEN x ELSE dflt

----------------------------------------------------------------------------
(* Natural numbers of any size, for the 53-bit mantissas of doubles and     *)
(* their 106-bit products: digit sequences in base 2^15, lowest digit first *)

LimbBits == 15
Limb == 32768

\* JavaScript computes a value where it is assigned: v is computed, then r
Given(v, r) == CASE v = v -> r

\* digit i of a, 0 above its length
Digit(a, i) == IF i <= Len(a) THEN a[i] ELSE 0

\* the position of the highest digit of a that is not 0, 0 if there is none
TopDigit(a) ==
    IF \A i \in 1 .. Len(a) : a[i] = 0 THEN 0
    ELSE CHOOSE i \in 1 .. Len(a) : a[i] # 0 /\ \A j \in i + 1 .. Len(a) : a[j] = 0

\* the function f of 1 .. n as the sequence of its values
AsSeq(f) == f \o <<>>

BTopped(a) == SubSeq(a, 1, TopDigit(a))

\* a without its leading zero digits
BTrim(a) == BTopped(AsSeq(a))

\* 0 <= n < 2^31
BFromNat(n) == BTrim(<<n % Limb, (n \div Limb) % Limb, n \div (Limb * Limb)>>)

\* the carry into digit i of a + b: some digit below i overflows and every
\* digit between passes the carry on
CarryInto(a, b, i) ==
    IF \E j \in 1 .. i - 1 :
          /\ Digit(a, j) + Digit(b, j) >= Limb
          /\ \A k \in j + 1 .. i - 1 : Digit(a, k) + Digit(b, k) = Limb - 1
    THEN 1 ELSE 0

BAddDigits(a, b, len) ==
    BTrim([i \in 1 .. len + 1 |-> (Digit(a, i) + Digit(b, i) + CarryInto(a, b, i)) % Limb])

BAdd(a, b) == Given(<<a, b>>, BAddDigits(a, b, IF Len(a) > Len(b) THEN Len(a) ELSE Len(b)))

\* the borrow from digit i of a - b
BorrowFrom(a, b, i) ==
    IF \E j \in 1 .. i - 1 :
          /\ Digit(a, j) < Digit(b, j)
          /\ \A k \in j + 1 .. i - 1 : Digit(a, k) = Digit(b, k)
    THEN 1 ELSE 0

\* a - b for a >= b
BSub(a, b) ==
    Given(<<a, b>>,
          BTrim([i \in 1 .. Len(a) |-> (a[i] - Digit(b, i) - BorrowFrom(a, b, i)) % Limb]))

\* the highest position where a and b differ, both of the same length
TopDifference(a, b) ==
    CHOOSE i \in 1 .. Len(a) : a[i] # b[i] /\ \A j \in i + 1 .. Len(a) : a[j] = b[j]

\* -1, 0, 1 as a < b, a = b, a > b
BCmp(a, b) ==
    IF Len(a) < Len(b) THEN -1
    ELSE IF Len(a) > Len(b) THEN 1
    ELSE IF \A i \in 1 .. Len(a) : a[i] = b[i] THEN 0
    ELSE IF a[TopDifference(a, b)] < b[TopDifference(a, b)] THEN -1
    ELSE 1

\* a * k for 0 <= k <= Limb: the low halves of the digit products, and their
\* high halves one digit up
BMulSmall(a, k) ==
    Given(<<a, k>>,
          BAdd(AsSeq([i \in 1 .. Len(a) |-> (a[i] * k) % Limb]),
               <<0>> \o [i \in 1 .. Len(a) |-> (a[i] * k) \div Limb]))

\* a * Limb^n
BTimesLimbs(a, n) == [i \in 1 .. n |-> 0] \o a

\* a times the digits lo .. hi of b, each at its place
RECURSIVE BMulRows(_, _, _, _)
BMulRows(a, b, lo, hi) ==
    IF lo = hi THEN BTimesLimbs(BMulSmall(a, b[lo]), lo - 1)
    ELSE BAdd(BMulRows(a, b, lo, (lo + hi) \div 2),
              BMulRows(a, b, ((lo + hi) \div 2) + 1, hi))

BMul(a, b) == IF a = <<>> \/ b = <<>> THEN <<>> ELSE BTrim(BMulRows(a, b, 1, Len(b)))

\* a * 2^n
BShl(a, n) == BTrim(BTimesLimbs(BMulSmall(a, 2 ^ (n % LimbBits)), n \div LimbBits))

\* floor(d / 2^r) for r < LimbBits
BShrBits(d, r) ==
    IF r = 0 THEN d
    ELSE BTrim([i \in 1 .. Len(d) |->
                  (d[i] \div (2 ^ r))
                  + ((IF i < Len(d) THEN d[i + 1] ELSE 0) % (2 ^ r))
                    * (2 ^ (LimbBits - r))])

\* floor(a / 2^n)
BShr(a, n) ==
    BShrBits(IF n \div LimbBits >= Len(a) THEN <<>>
             ELSE SubSeq(a, (n \div LimbBits) + 1, Len(a)),
             n % LimbBits)

\* a mod 2^n is not 0
BLowBits(a, n) ==
    \/ \E i \in 1 .. Len(a) : i <= n \div LimbBits /\ a[i] # 0
    \/ n \div LimbBits < Len(a) /\ a[(n \div LimbBits) + 1] % (2 ^ (n % LimbBits)) # 0

\* bit n of a (bit 0 is the lowest)
BBit(a, n) ==
    IF n < 0 \/ n \div LimbBits >= Len(a) THEN 0
    ELSE (a[(n \div LimbBits) + 1] \div (2 ^ (n % LimbBits))) % 2

\* the number of bits of the digit x
BitLenSmall(x) == Cardinality({n \in 0 .. LimbBits - 1 : x >= 2 ^ n})

BBitLen(a) == IF a = <<>> THEN 0 ELSE LimbBits * (Len(a) - 1) + BitLenSmall(a[Len(a)])

BOne == <<1>>

\* the largest of est, est - 1, est - 2 whose product with v is at most r
QuotientPick(r, v, est) ==
    IF BCmp(BMulSmall(v, est), r) <= 0 THEN est
    ELSE IF BCmp(BMulSmall(v, est - 1), r) <= 0 THEN est - 1
    ELSE est - 2

\* the next quotient digit of r / v, for r < v * Limb and v's top digit >= Limb / 2:
\* the estimate from the two top digits of r is at most 2 too large
QuotientDigit(r, v) ==
    IF Len(r) < Len(v) THEN 0
    ELSE QuotientPick(r, v,
             IF (Digit(r, Len(v) + 1) * Limb + r[Len(v)]) \div v[Len(v)] >= Limb
             THEN Limb - 1
             ELSE (Digit(r, Len(v) + 1) * Limb + r[Len(v)]) \div v[Len(v)])

\* digit d of the quotient found for the remainder r1
BDivStep(v, q, r1, d) == Given(d, <<<<d>> \o q, BSub(r1, BMulSmall(v, d))>>)

\* one digit of u is brought down to the remainder
BDivDigit(v, q, r1) == Given(r1, BDivStep(v, q, r1, QuotientDigit(r1, v)))

\* long division of u by v, the digits hi down to lo of u, from the quotient
\* digits and the remainder qr of the digits above hi
RECURSIVE BDivRange(_, _, _, _, _)
BDivRange(u, v, hi, lo, qr) ==
    Given(qr,
          IF hi < lo THEN qr
          ELSE IF hi = lo THEN BDivDigit(v, qr[1], BTrim(<<u[hi]>> \o qr[2]))
          ELSE BDivRange(u, v, ((hi + lo + 1) \div 2) - 1, lo,
                         BDivRange(u, v, hi, (hi + lo + 1) \div 2, qr)))

\* the quotient and the remainder of the operands scaled by 2^s
BDivUnscaled(qr, s) == Given(qr, <<BTrim(qr[1]), BShr(qr[2], s)>>)

BDivScaledBy(un, vn, s) ==
    Given(<<un, vn>>, BDivUnscaled(BDivRange(un, vn, Len(un), 1, <<<<>>, <<>>>>), s))

BDivScaled(u, v, s) == BDivScaledBy(BShl(u, s), BShl(v, s), s)

\* <<floor(u / v), u mod v>> for v # 0
BDivMod(u, v) == BDivScaled(u, v, LimbBits - BitLenSmall(v[Len(v)]))

----------------------------------------------------------------------------
(* The JavaScript number as the statistics engine computes with it: IEEE   *)
(* 754 binary64, every operation rounded to nearest, ties to even.  A       *)
(* finite double other than 0 is (-1)^neg * m * 2^e with m of 53 bits, or   *)
(* of fewer bits at e = MinExp (subnormal); the sign of zero is not kept.   *)
(* null and undefined are array entries, never operands.                    *)

MantBits == 53
MinExp == -1074
MaxExp == 971

DNaN == [cls |-> "nan", neg |-> FALSE, m |-> <<>>, e |-> 0]
DInf(neg) == [cls |-> "inf", neg |-> neg, m |-> <<>>, e |-> 0]
DZero == [cls |-> "zero", neg |-> FALSE, m |-> <<>>, e |-> 0]
DNull == [cls |-> "null", neg |-> FALSE, m |-> <<>>, e |-> 0]
DUndefined == [cls |-> "undefined", neg |-> FALSE, m |-> <<>>, e |-> 0]
DFin(neg, m, e) == [cls |-> "fin", neg |-> neg, m |-> m, e |-> e]

\* kept is m without its d lowest bits: one more when the cut bits are above
\* half a unit, or are half a unit and kept is odd (ties to even)
RoundNearest(m, d, sticky, kept) ==
  Given(kept,
    IF /\ BBit(m, d - 1) = 1
       /\ (BLowBits(m, d - 1) \/ sticky \/ BBit(kept, 0) = 1)
    THEN BAdd(kept, BOne)
    ELSE kept)

\* the mantissa m cut to its bits from position d up, rounded to nearest,
\* ties to even; sticky says the exact value lies above m
RoundAt(m, d, sticky) == RoundNearest(m, d, sticky, BShr(m, d))

\* the double of mantissa m2 and exponent e2: infinite above the range
RoundPacked(neg, m2, e2) ==
    IF m2 = <<>> THEN DZero
    ELSE IF e2 > MaxExp THEN DInf(neg)
    ELSE DFin(neg, m2, e2)

\* rounding up may carry into a 54th bit
RoundCarried(neg, r, e2) ==
    Given(r,
          IF BBitLen(r) > MantBits THEN RoundPacked(neg, BShr(r, 1), e2 + 1)
          ELSE RoundPacked(neg, r, e2))

\* m cut at bit d: at the 53rd bit from the top, or at MinExp if that is higher
RoundCut(neg, m, e, sticky, d) ==
  Given(d,
    RoundCarried(neg, IF d <= 0 THEN BShl(m, -d) ELSE RoundAt(m, d, sticky), e + d))

RoundMeasured(neg, m, e, sticky, len) ==
    RoundCut(neg, m, e, sticky,
             IF e + len - MantBits >= MinExp THEN len - MantBits ELSE MinExp - e)

\* the double nearest to (-1)^neg * m * 2^e, m # 0
Round(neg, m, e, sticky) == Given(m, RoundMeasured(neg, m, e, sticky, BBitLen(m)))

FromInt(n) == IF n = 0 THEN DZero ELSE Round(n < 0, BFromNat(IF n < 0 THEN -n ELSE n), 0, FALSE)

DIsNumber(x) == x.cls \notin {"null", "undefined"}
DIsNaN(x) == x.cls = "nan"
DIsFinite(x) == x.cls \in {"zero", "fin"}

DNeg(a) == IF a.cls \in {"fin", "inf"} THEN [a EXCEPT !.neg = ~a.neg] ELSE a
DAbs(a) == [a EXCEPT !.neg = FALSE]

\* |a| and |b| compared, both finite and not zero
CmpMag(a, b) ==
    IF a.e < b.e THEN -1 ELSE IF a.e > b.e THEN 1 ELSE BCmp(a.m, b.m)

\* x - y for x >= y, y - x otherwise
BDiff(x, y, c) == IF c > 0 THEN BSub(x, y) ELSE BSub(y, x)

\* x is |hi| and lo.m is |lo| in units of 2^lo.e; c compares them
AddCombined(hi, lo, x, c) ==
  Given(<<x, c>>,
    IF hi.neg # lo.neg /\ c = 0 THEN DZero
    ELSE Round(IF hi.neg = lo.neg \/ c > 0 THEN hi.neg ELSE lo.neg,
               IF hi.neg = lo.neg THEN BAdd(x, lo.m) ELSE BDiff(x, lo.m, c),
               lo.e, FALSE))

AddAligned(hi, lo, x) == AddCombined(hi, lo, x, BCmp(x, lo.m))

\* hi has the exponent not below lo's; lo is lost when it is too small to
\* reach the rounding bit of hi
AddOrdered(hi, lo) ==
    IF hi.e - lo.e >= MantBits + 3 THEN hi
    ELSE AddAligned(hi, lo, BShl(hi.m, hi.e - lo.e))

AddFinite(a, b) ==
    AddOrdered(IF a.e >= b.e THEN a ELSE b, IF a.e >= b.e THEN b ELSE a)

DAdd(a, b) ==
    IF DIsNaN(a) \/ DIsNaN(b) THEN DNaN
    ELSE IF a.cls = "inf" THEN (IF b.cls = "inf" /\ b.neg # a.neg THEN DNaN ELSE a)
    ELSE IF b.cls = "inf" THEN b
    ELSE IF a.cls = "zero" THEN b
    ELSE IF b.cls = "zero" THEN a
    ELSE AddFinite(a, b)

DSub(a, b) == DAdd(a, DNeg(b))

DMul(a, b) ==
    IF DIsNaN(a) \/ DIsNaN(b) THEN DNaN
    ELSE IF a.cls = "inf" \/ b.cls = "inf"
         THEN (IF a.cls = "zero" \/ b.cls = "zero" THEN DNaN ELSE DInf(a.neg # b.neg))
    ELSE IF a.cls = "zero" \/ b.cls = "zero" THEN DZero
    ELSE Round(a.neg # b.neg, BMul(a.m, b.m), a.e + b.e, FALSE)

NormalBy(a, s) == Given(s, [a EXCEPT !.m = BShl(a.m, s), !.e = a.e - s])

\* the mantissa shifted up to 53 bits, with the exponent that keeps the value
Normal(a) == NormalBy(a, MantBits - BBitLen(a.m))

DivBits == 60

\* qr is the quotient and the remainder of x.m * 2^DivBits by y.m
DivRounded(neg, x, y, qr) ==
    Given(qr, Round(neg, qr[1], x.e - y.e - DivBits, qr[2] # <<>>))

DivNormal(neg, x, y) ==
    Given(<<x, y>>, DivRounded(neg, x, y, BDivMod(BShl(x.m, DivBits), y.m)))

DivFinite(a, b) == DivNormal(a.neg # b.neg, Normal(a), Normal(b))

DDiv(a, b) ==
    IF DIsNaN(a) \/ DIsNaN(b) THEN DNaN
    ELSE IF a.cls = "inf" THEN (IF b.cls = "inf" THEN DNaN ELSE DInf(a.neg # b.neg))
    ELSE IF b.cls = "inf" THEN DZero
    ELSE IF b.cls = "zero" THEN (IF a.cls = "zero" THEN DNaN ELSE DInf(a.neg))
    ELSE IF a.cls = "zero" THEN DZero
    ELSE DivFinite(a, b)

\* Newton's iteration for the integer square root of n, from x >= sqrt(n)
RECURSIVE BSqrtFrom(_, _)

BSqrtImproved(n, x, y) == Given(y, IF BCmp(y, x) >= 0 THEN x ELSE BSqrtFrom(n, y))

BSqrtFrom(n, x) == BSqrtImproved(n, x, BShr(BAdd(x, BDivMod(n, x)[1]), 1))

\* root is the integer square root of n = x.m * 2^s
SqrtRooted(x, s, n, root) ==
    Given(root, Round(FALSE, root, (x.e - s) \div 2, BMul(root, root) # n))

SqrtRadicand(x, s, n) == Given(n, SqrtRooted(x, s, n, BSqrtFrom(n, BShl(BOne, 56))))

\* s makes the exponent x.e - s even
SqrtEvened(x, s) == Given(<<x, s>>, SqrtRadicand(x, s, BShl(x.m, s)))

SqrtFinite(a) ==
    SqrtEvened(Normal(a), IF (Normal(a).e - 58) % 2 = 0 THEN 58 ELSE 59)

DSqrt(a) ==
    IF DIsNaN(a) THEN DNaN
    ELSE IF a.cls = "zero" THEN DZero
    ELSE IF a.neg THEN DNaN
    ELSE IF a.cls = "inf" THEN a
    ELSE SqrtFinite(a)

DSign(x) == IF x.cls = "zero" THEN 0 ELSE IF x.neg THEN -1 ELSE 1

\* |a| against |b|, neither zero nor NaN
DCmpMag(a, b) ==
    IF a.cls = "inf" THEN (IF b.cls = "inf" THEN 0 ELSE 1)
    ELSE IF b.cls = "inf" THEN -1
    ELSE CmpMag(a, b)

\* a < b; every comparison with NaN is false
DLt(a, b) ==
    IF DIsNaN(a) \/ DIsNaN(b) THEN FALSE
    ELSE IF DSign(a) # DSign(b) THEN DSign(a) < DSign(b)
    ELSE IF DSign(a) = 0 THEN FALSE
    ELSE (IF DSign(a) > 0 THEN DCmpMag(a, b) ELSE -DCmpMag(a, b)) < 0

DGt(a, b) == DLt(b, a)

\* the double written n / d in decimal (0.05 is Lit(5, 100))
Lit(n, d) == DDiv(FromInt(n), FromInt(d))

\* What a call gave back: status is "none" before the call, then "returned" or
\* "threw" (with the Error's message); the returned value sits in the field of
\* its type: number (a scalar), outputs (a PowerOutput[]), response (the JSON
\* body of the route), statistics (an AtmosphericStatistics), report (a
\* DataQualityReport), research (an AtmosphericResearchData), correlation (a
\* CorrelationMatrix), trend (a TrendAnalysis), anomalies (an
\* AnomalyDetection[]).
NoResponse ==
    [success |-> FALSE, error |-> "", httpStatus |-> 0, hasOutputs |-> FALSE,
     outputs |-> <<>>]
NoStatistics ==
    [mean |-> DUndefined, median |-> DUndefined, stdDev |-> DUndefined,
     min |-> DUndefined, max |-> DUndefined, percentile25 |-> DUndefined,
     percentile75 |-> DUndefined, percentile95 |-> DUndefined,
     count |-> 0, missingCount |-> 0]
NoReport ==
    [totalRecords |-> 0, completeRecords |-> 0, missingDataPercentage |-> Undef,
     qualityScore |-> Undef, variableCompleteness |-> <<>>, outlierCount |-> 0,
     suspiciousValues |-> <<>>]
\* correlations is undefined in the bundle when fewer than two variables have
\* a number: NoCorrelation stands for it
NoCorrelation == [variables |-> <<>>, matrix |-> <<>>, pValues |-> <<>>]
NoTrend ==
    [variable |-> "", slope |-> DUndefined, intercept |-> DUndefined,
     rSquared |-> DUndefined, pValue |-> DUndefined, trend |-> "",
     confidence |-> DUndefined]
NoResearch ==
    [location |-> Undef, timeRange |-> <<>>, weatherData |-> <<>>, statistics |-> <<>>,
     correlations |-> NoCorrelation, trends |-> <<>>, anomalies |-> <<>>,
     dataQuality |-> NoReport]
NoLongTerm ==
    [success |-> FALSE, error |-> "", httpStatus |-> 0, monthlyAverages |-> <<>>,
     annualProduction |-> Undef, averageCapacityFactor |-> Undef]
NoResult ==
    [status |-> "none", message |-> "", number |-> Undef, outputs |-> <<>>,
     response |-> NoResponse, longTerm |-> NoLongTerm, statistics |-> NoStatistics, report |-> NoReport,
     research |-> NoResearch, correlation |-> NoCorrelation, trend |-> NoTrend,
     anomalies |-> <<>>]
Threw(msg) == [NoResult EXCEPT !.status = "threw", !.message = msg]
ReturnedNumber(x) == [NoResult EXCEPT !.status = "returned", !.number = x]
ReturnedOutputs(s) == [NoResult EXCEPT !.status = "returned", !.outputs = s]
ReturnedResponse(r) == [NoResult EXCEPT !.status = "returned", !.response = r]
ReturnedLongTerm(r) == [NoResult EXCEPT !.status = "returned", !.longTerm = r]
ReturnedStatistics(st) == [NoResult EXCEPT !.status = "returned", !.statistics = st]
ReturnedReport(r) == [NoResult EXCEPT !.status = "returned", !.report = r]
ReturnedResearch(r) == [NoResult EXCEPT !.status = "returned", !.research = r]
ReturnedCorrelation(c) == [NoResult EXCEPT !.status = "returned", !.correlation = c]
ReturnedTrend(t) == [NoResult EXCEPT !.status = "returned", !.trend = t]
ReturnedAnomalies(a) == [NoResult EXCEPT !.status = "returned", !.anomalies = a]

Indices(s) == 1 .. Len(s)

----------------------------------------------------------------------------
(* Solar power model: src/lib/models/solarModel.ts                         *)

G_STC == 1000
T_STC == 25
NOCT == 45
DefaultSystemLosses == 14
\* tempCoefficient: number = -0.004
TempCoefficient == Q(-4, 1000)

\* calculateSolarPower without the final Math.max(0, power)
CalculateSolarPowerUnclamped(irradiance, dcCapacity, systemLosses) ==
    LET losses == OrDefault(systemLosses, N(DefaultSystemLosses))
        systemEfficiency == Div(Sub(N(100), losses), N(100))
    IN  Mul(Mul(Div(irradiance, N(G_STC)), dcCapacity), systemEfficiency)

CalculateSolarPower(irradiance, dcCapacity, systemLosses) ==
    LET losses == OrDefault(systemLosses, N(DefaultSystemLosses))
        systemEfficiency == Div(Sub(N(100), losses), N(100))
        power == Mul(Mul(Div(irradiance, N(G_STC)), dcCapacity), systemEfficiency)
    IN  MathMax(N(0), power)

\* applyTemperatureCorrection with the cell temperature taken over G / 80
ApplyTemperatureCorrectionOver80(basePower, ambientTemp, irradiance) ==
    LET cellTemp == Add(ambientTemp, Mul(N(NOCT - 20), Div(irradiance, N(80))))
        tempFactor == Add(N(1), Mul(TempCoefficient, Sub(cellTemp, N(T_STC))))
    IN  Mul(basePower, tempFactor)

ApplyTemperatureCorrection(basePower, ambientTemp, irradiance) ==
    LET cellTemp == Add(ambientTemp, Mul(N(NOCT - 20), Div(irradiance, N(800))))
        tempFactor == Add(N(1), Mul(TempCoefficient, Sub(cellTemp, N(T_STC))))
    IN  Mul(basePower, tempFactor)

AdjustIrradianceForClouds(irradiance, cloudCover) ==
    LET cloudFactor == Sub(N(1), Div(Mul(Q(8, 10), cloudCover), N(100)))
    IN  Mul(irradiance, cloudFactor)

\* the power computed for one hour, before the final clamps (lines 115-142)
SolarRawPower(a, hour) ==
    IF IsDefined(hour.solarIrradiance) /\ Gt(hour.solarIrradiance, N(0))
    THEN LET adjustedIrradiance ==
                 IF IsDefined(hour.cloudCover)
                 THEN AdjustIrradianceForClouds(hour.solarIrradiance, hour.cloudCover)
                 ELSE hour.solarIrradiance
             base == CalculateSolarPower(adjustedIrradiance, a.dcCapacity, a.systemLosses)
         IN  IF IsDefined(hour.temperature)
             THEN ApplyTemperatureCorrection(base, hour.temperature, adjustedIrradiance)
             ELSE base
    ELSE N(0)

\* the solar callback dividing by dcCapacity without the > 0 guard
SolarHourUnguarded(a, hour) ==
    LET power == SolarRawPower(a, hour)
        capacity == Mul(Div(power, a.dcCapacity), N(100))
    IN  [time |-> hour.time,
         power |-> MathMax(N(0), power),
         capacity |-> MathMin(N(100), MathMax(N(0), capacity))]

\* the callback of weatherData.map in generateSolarForecast
SolarHour(a, hour) ==
    LET power == SolarRawPower(a, hour)
        capacity == IF Gt(a.dcCapacity, N(0))
                    THEN Mul(Div(power, a.dcCapacity), N(100))
                    ELSE N(0)
    IN  [time |-> hour.time,
         power |-> MathMax(N(0), power),
         capacity |-> MathMin(N(100), MathMax(N(0), capacity))]

\* generateSolarForecast dropping the hours that carry no irradiance
GenerateSolarForecastSkipping(a, series) ==
    LET kept == SelectSeq(series, LAMBDA hour : IsDefined(hour.solarIrradiance))
    IN  ReturnedOutputs([i \in Indices(kept) |-> SolarHour(a, kept[i])])

GenerateSolarForecast(a, series) ==
    ReturnedOutputs([i \in Indices(series) |-> SolarHour(a, series[i])])

----------------------------------------------------------------------------
(* Wind power model: src/lib/models/windModel.ts                           *)

DefaultCutInSpeed == 3
DefaultRatedSpeed == 12
DefaultCutOutSpeed == 25
DefaultReferenceHeight == 10

\* Math.pow(ratio, 0.14) for the height ratios of the model, to two decimals
PowAlpha(ratio) ==
    CASE ratio = N(1) -> N(1)
      [] ratio = N(8) -> Q(134, 100)
      [] ratio = N(10) -> Q(138, 100)

ExtrapolateThrows(refHeight, targetHeight) ==
    Le(refHeight, N(0)) \/ Le(targetHeight, N(0))

ExtrapolateWindSpeed(windSpeedAtReference, refHeight, targetHeight) ==
    Mul(windSpeedAtReference, PowAlpha(Div(targetHeight, refHeight)))

\* calculateWindPower shutting down at the cut-out speed itself (>= for >)
CalculateWindPowerCutOutAt(windSpeed, a) ==
    LET cutInSpeed == OrDefault(a.cutInSpeed, N(DefaultCutInSpeed))
        ratedSpeed == OrDefault(a.ratedSpeed, N(DefaultRatedSpeed))
        cutOutSpeed == OrDefault(a.cutOutSpeed, N(DefaultCutOutSpeed))
        power == Mul(a.ratedCapacity,
                     Div(Sub(Cube(windSpeed), Cube(cutInSpeed)),
                         Sub(Cube(ratedSpeed), Cube(cutInSpeed))))
    IN  IF Lt(windSpeed, cutInSpeed) THEN N(0)
        ELSE IF Ge(windSpeed, cutOutSpeed) THEN N(0)
        ELSE IF Ge(windSpeed, ratedSpeed) THEN a.ratedCapacity
        ELSE MathMax(N(0), MathMin(a.ratedCapacity, power))

\* calculateWindPower rising with the speed itself between cut-in and rated
CalculateWindPowerLinear(windSpeed, a) ==
    LET cutInSpeed == OrDefault(a.cutInSpeed, N(DefaultCutInSpeed))
        ratedSpeed == OrDefault(a.ratedSpeed, N(DefaultRatedSpeed))
        cutOutSpeed == OrDefault(a.cutOutSpeed, N(DefaultCutOutSpeed))
        power == Mul(a.ratedCapacity,
                     Div(Sub(windSpeed, cutInSpeed), Sub(ratedSpeed, cutInSpeed)))
    IN  IF Lt(windSpeed, cutInSpeed) THEN N(0)
        ELSE IF Gt(windSpeed, cutOutSpeed) THEN N(0)
        ELSE IF Ge(windSpeed, ratedSpeed) THEN a.ratedCapacity
        ELSE MathMax(N(0), MathMin(a.ratedCapacity, power))

CalculateWindPower(windSpeed, a) ==
    LET cutInSpeed == OrDefault(a.cutInSpeed, N(DefaultCutInSpeed))
        ratedSpeed == OrDefault(a.ratedSpeed, N(DefaultRatedSpeed))
        cutOutSpeed == OrDefault(a.cutOutSpeed, N(DefaultCutOutSpeed))
        power == Mul(a.ratedCapacity,
                     Div(Sub(Cube(windSpeed), Cube(cutInSpeed)),
                         Sub(Cube(ratedSpeed), Cube(cutInSpeed))))
    IN  IF Lt(windSpeed, cutInSpeed) THEN N(0)
        ELSE IF Gt(windSpeed, cutOutSpeed) THEN N(0)
        ELSE IF Ge(windSpeed, ratedSpeed) THEN a.ratedCapacity
        ELSE MathMax(N(0), MathMin(a.ratedCapacity, power))

\* applyAirDensityCorrection(basePower, temperature): altitude is never passed
ApplyAirDensityCorrection(basePower, temperature) ==
    LET T0 == Q(28815, 100)
        T == Add(temperature, Q(27315, 100))
        densityRatio == IF IsDefined(temperature) THEN Div(T0, T) ELSE N(1)
    IN  Mul(basePower, densityRatio)

WindHourCalls(hour) == IsDefined(hour.windSpeed) /\ Gt(hour.windSpeed, N(0))

\* the power computed for one hour, before the final clamps (lines 168-185)
WindRawPower(a, hour, refHeight) ==
    IF WindHourCalls(hour)
    THEN LET windSpeedAtHub == ExtrapolateWindSpeed(hour.windSpeed, refHeight, a.hubHeight)
             base == CalculateWindPower(windSpeedAtHub, a)
         IN  IF IsDefined(hour.temperature)
             THEN ApplyAirDensityCorrection(base, hour.temperature)
             ELSE base
    ELSE N(0)

\* the wind callback without the upper clamp of capacity at 100
WindHourNoUpperClamp(a, hour, refHeight) ==
    LET power == WindRawPower(a, hour, refHeight)
        capacity == IF Gt(a.ratedCapacity, N(0))
                    THEN Mul(Div(power, a.ratedCapacity), N(100))
                    ELSE N(0)
    IN  [time |-> hour.time,
         power |-> MathMax(N(0), power),
         capacity |-> MathMax(N(0), capacity)]

\* the callback of weatherData.map in generateWindForecast
WindHour(a, hour, refHeight) ==
    LET power == WindRawPower(a, hour, refHeight)
        capacity == IF Gt(a.ratedCapacity, N(0))
                    THEN Mul(Div(power, a.ratedCapacity), N(100))
                    ELSE N(0)
    IN  [time |-> hour.time,
         power |-> MathMax(N(0), power),
         capacity |-> MathMin(N(100), MathMax(N(0), capacity))]

\* extrapolateWindSpeed throws out of the map as soon as an hour reaches it
GenerateWindForecast(a, series, refHeight) ==
    IF \E i \in Indices(series) :
           WindHourCalls(series[i]) /\ ExtrapolateThrows(refHeight, a.hubHeight)
    THEN Threw("Heights must be positive values")
    ELSE ReturnedOutputs([i \in Indices(series) |-> WindHour(a, series[i], refHeight)])

----------------------------------------------------------------------------
(* POST /api/forecast: src/unnamed/part_000 lines 590-670                  *)

Response(success, error, httpStatus, hasOutputs, outputs) ==
    [success |-> success, error |-> error, httpStatus |-> httpStatus,
     hasOutputs |-> hasOutputs, outputs |-> outputs]

ErrorResponse(error, httpStatus) == Response(FALSE, error, httpStatus, FALSE, <<>>)

\* the forecast the route builds with the default reference height
RouteForecast(a, series) ==
    IF a.type = "solar" THEN GenerateSolarForecast(a, series)
    ELSE GenerateWindForecast(a, series, N(DefaultReferenceHeight))

\* locationOk: body.location has numeric coordinates; assetOk: body.asset has a
\* type; fetchOk: fetchOpenMeteoForecast resolved (with `series`)
\* the route without its check for an empty weather series
PostForecastNoEmptyCheck(locationOk, assetOk, fetchOk, a, series) ==
    IF ~locationOk THEN ErrorResponse("INVALID_INPUT", 400)
    ELSE IF ~assetOk THEN ErrorResponse("INVALID_INPUT", 400)
    ELSE IF ~fetchOk THEN ErrorResponse("INTERNAL_ERROR", 500)
    ELSE IF a.type \notin {"solar", "wind"} THEN ErrorResponse("INVALID_ASSET_TYPE", 400)
    ELSE LET powerOutputs == RouteForecast(a, series)
         IN  IF powerOutputs.status = "threw"
             THEN ErrorResponse("INTERNAL_ERROR", 500)
             ELSE Response(TRUE, "", 200, TRUE, powerOutputs.outputs)

PostForecast(locationOk, assetOk, fetchOk, a, series) ==
    IF ~locationOk THEN ErrorResponse("INVALID_INPUT", 400)
    ELSE IF ~assetOk THEN ErrorResponse("INVALID_INPUT", 400)
    ELSE IF ~fetchOk THEN ErrorResponse("INTERNAL_ERROR", 500)
    ELSE IF Len(series) = 0 THEN ErrorResponse("NO_DATA", 404)
    ELSE IF a.type \notin {"solar", "wind"} THEN ErrorResponse("INVALID_ASSET_TYPE", 400)
    ELSE LET powerOutputs == RouteForecast(a, series)
         IN  IF powerOutputs.status = "threw"
             THEN ErrorResponse("INTERNAL_ERROR", 500)
             ELSE Response(TRUE, "", 200, TRUE, powerOutputs.outputs)

----------------------------------------------------------------------------
(* POST /api/long-term: src/app/api/long-term/route.ts, with               *)
(* calculateMonthlyAverages of src/lib/api/weatherClient.ts                *)

Months == 12
HoursInMonth == 730
HoursInYear == 8760

\* a historical record is stamped with the month of its date:
\* new Date(hour.time).getMonth() + 1
MonthOf(hour) == hour.time

RECURSIVE SumOf(_)
SumOf(s) == IF s = <<>> THEN N(0) ELSE Add(Head(s), SumOf(Tail(s)))

\* the readings of a variable pushed for a month: those not undefined
MonthReadings(series, month, key) ==
    SelectSeq([i \in Indices(series) |-> IF MonthOf(series[i]) = month THEN series[i][key]
                                         ELSE Undef] \o <<>>,
              IsDefined)

\* length > 0 ? reduce((a, b) => a + b, 0) / length : 0
AverageOrZero(readings) ==
    IF Len(readings) > 0 THEN Div(SumOf(readings), N(Len(readings))) ELSE N(0)

CalculateMonthlyAverages(series) ==
    [month \in 1 .. Months |->
        [solarIrradiance |-> AverageOrZero(MonthReadings(series, month, "solarIrradiance")),
         windSpeed |-> AverageOrZero(MonthReadings(series, month, "windSpeed")),
         temperature |-> AverageOrZero(MonthReadings(series, month, "temperature")),
         dataPoints |-> Len(MonthReadings(series, month, "solarIrradiance"))]]

\* asset.type === 'solar' ? asset.dcCapacity : asset.ratedCapacity
CapacityOfAsset(a) == IF a.type = "solar" THEN a.dcCapacity ELSE a.ratedCapacity

\* calculateSolarCapacityFactor and calculateWindCapacityFactor
CapacityFactor(actualProduction, ratedCapacity, hours) ==
    IF Mul(ratedCapacity, N(hours)) = N(0) THEN N(0)
    ELSE Mul(Div(actualProduction, Mul(ratedCapacity, N(hours))), N(100))

\* the route's average power of a month, had it called calculateSolarPower
\* and calculateAverageWindPower of the forecast models
MonthlyPowerByModels(a, data) ==
    IF a.type = "solar"
    THEN CalculateSolarPower(data.solarIrradiance, a.dcCapacity, a.systemLosses)
    ELSE IF a.type = "wind" THEN CalculateWindPower(data.windSpeed, a)
    ELSE N(0)

\* avgPower of a month (lines 98-129): the solar branch multiplies by 0.86
\* and the wind branch reads cutInSpeed and ratedSpeed only
MonthlyPower(a, data) ==
    IF a.type = "solar"
    THEN Mul(Mul(Div(data.solarIrradiance, N(1000)), a.dcCapacity), Q(86, 100))
    ELSE IF a.type = "wind"
    THEN IF /\ Ge(data.windSpeed, OrDefault(a.cutInSpeed, N(DefaultCutInSpeed)))
            /\ Lt(data.windSpeed, OrDefault(a.ratedSpeed, N(DefaultRatedSpeed)))
         THEN Mul(a.ratedCapacity,
                  Div(Sub(Cube(data.windSpeed),
                          Cube(OrDefault(a.cutInSpeed, N(DefaultCutInSpeed)))),
                      Sub(Cube(OrDefault(a.ratedSpeed, N(DefaultRatedSpeed))),
                          Cube(OrDefault(a.cutInSpeed, N(DefaultCutInSpeed))))))
         ELSE IF Ge(data.windSpeed, OrDefault(a.ratedSpeed, N(DefaultRatedSpeed)))
         THEN a.ratedCapacity
         ELSE N(0)
    ELSE N(0)

\* the entry pushed for a month
MonthlyAverage(a, month, data) ==
    [month |-> month,
     averageProduction |-> Mul(MonthlyPower(a, data), N(HoursInMonth)),
     averageCapacityFactor |->
         IF a.type \in {"solar", "wind"}
         THEN CapacityFactor(Mul(MonthlyPower(a, data), N(HoursInMonth)),
                             CapacityOfAsset(a), HoursInMonth)
         ELSE N(0)]

LongTermAnalysed(a, monthlyAverages, totalAnnualProduction) ==
    [success |-> TRUE, error |-> "", httpStatus |-> 200,
     monthlyAverages |-> monthlyAverages,
     annualProduction |-> totalAnnualProduction,
     averageCapacityFactor |->
         Mul(Div(totalAnnualProduction, Mul(CapacityOfAsset(a), N(HoursInYear))), N(100))]

LongTermOfMonths(a, monthlyAverages) ==
    LongTermAnalysed(a, monthlyAverages,
                     SumOf([m \in 1 .. Months |-> monthlyAverages[m].averageProduction]))

LongTermError(error, httpStatus) ==
    [NoLongTerm EXCEPT !.error = error, !.httpStatus = httpStatus]

\* the handler: locationOk and assetOk are the two validations, fetchOk is
\* false when fetchOpenMeteoHistorical throws
PostLongTerm(locationOk, assetOk, fetchOk, a, historicalData) ==
    IF ~locationOk THEN LongTermError("INVALID_INPUT", 400)
    ELSE IF ~assetOk THEN LongTermError("INVALID_INPUT", 400)
    ELSE IF ~fetchOk THEN LongTermError("INTERNAL_ERROR", 500)
    ELSE IF Len(historicalData) = 0 THEN LongTermError("NO_DATA", 404)
    ELSE LongTermOfMonths(a, [month \in 1 .. Months |->
                                 MonthlyAverage(a, month,
                                                CalculateMonthlyAverages(historicalData)[month])])

----------------------------------------------------------------------------
(* Atmospheric statistics engine: src/lib/utils/atmosphericResearch.ts     *)

\* value !== null && value !== undefined && !isNaN(value), of a sample's field
IsValidNumber(v) == IsDefined(v) /\ ~IsNaN(v)

\* the double a sample's value q is read as: the one nearest to it
ToDouble(q) ==
    IF IsNaN(q) THEN DNaN
    ELSE IF ~IsFinite(q) THEN DInf(q[1] < 0)
    ELSE IF q[2] = 1 THEN FromInt(q[1])
    ELSE Lit(q[1], q[2])

\* v !== null && v !== undefined && !isNaN(v)
DIsValid(v) == v.cls \in {"zero", "fin", "inf"}

\* the global isNaN(v): Number(undefined) is NaN, Number(null) is 0
JsIsNaN(v) == v.cls \in {"nan", "undefined"}

\* isFinite(v) of a number
JsIsFinite(v) == DIsFinite(v)

\* Math.pow(x, 2), taken as the correctly rounded square
Square(x) == DMul(x, x)

\* sum with s[lo], ..., s[hi] added in this order, one rounded addition per
\* entry: the range is taken in two halves and the sum of the first is
\* carried into the second; once the sum is NaN it stays NaN
RECURSIVE SumRange(_, _, _, _)
SumRange(s, lo, hi, sum) ==
    IF DIsNaN(sum) \/ lo > hi THEN sum
    ELSE IF lo = hi THEN DAdd(sum, s[lo])
    ELSE SumRange(s, ((lo + hi) \div 2) + 1, hi, SumRange(s, lo, (lo + hi) \div 2, sum))

\* s.reduce((sum, v) => sum + v, 0): the terms added from the left
SumTerms(s) == SumRange(s, 1, Len(s), DZero)

SumSeq(s) == SumTerms(AsSeq(s))

\* the position of s[i] in ascending order: one more than the number of
\* entries below it, or equal to it and earlier
Rank(s, i) ==
    1 + Cardinality({j \in 1 .. Len(s) :
                        DLt(s[j], s[i]) \/ (~DLt(s[i], s[j]) /\ j < i)})

\* [...validValues].sort((a, b) => a - b)
SortRanked(s, rank) ==
    AsSeq([r \in 1 .. Len(s) |-> s[CHOOSE i \in 1 .. Len(s) : rank[i] = r]])

SortAscending(s) == SortRanked(s, AsSeq([i \in 1 .. Len(s) |-> Rank(s, i)]))

\* the all-zero record with missingCount left at 0
AllZeroStatisticsNoMissing(missing) ==
    [mean |-> DZero, median |-> DZero, stdDev |-> DZero, min |-> DZero, max |-> DZero,
     percentile25 |-> DZero, percentile75 |-> DZero, percentile95 |-> DZero,
     count |-> 0, missingCount |-> 0]

AllZeroStatistics(missing) ==
    [mean |-> DZero, median |-> DZero, stdDev |-> DZero, min |-> DZero, max |-> DZero,
     percentile25 |-> DZero, percentile75 |-> DZero, percentile95 |-> DZero,
     count |-> 0, missingCount |-> missing]

\* index = Math.ceil((p / 100) * sorted.length) - 1
PercentileIndex(len, p) == ((p * len + 99) \div 100) - 1

\* getPercentile with the index rounded down: sorted[floor(p / 100 * n)]
GetPercentileFloor(sorted, p) ==
    sorted[(IF (p * Len(sorted)) \div 100 >= Len(sorted) THEN Len(sorted) - 1
            ELSE (p * Len(sorted)) \div 100) + 1]

\* sorted[Math.max(0, index)]
GetPercentile(sorted, p) ==
    sorted[(IF PercentileIndex(Len(sorted), p) < 0 THEN 0
            ELSE PercentileIndex(Len(sorted), p)) + 1]

\* the record returned for n valid values of the given mean and variance
StatisticsDescribed(vals, sorted, n, mean, variance) ==
  Given(<<sorted, variance>>,
    [mean |-> mean,
     median |-> sorted[(n \div 2) + 1],
     stdDev |-> DSqrt(variance),
     min |-> sorted[1],
     max |-> sorted[n],
     percentile25 |-> GetPercentile(sorted, 25),
     percentile75 |-> GetPercentile(sorted, 75),
     percentile95 |-> GetPercentile(sorted, 95),
     count |-> n,
     missingCount |-> Len(vals) - n])

\* variance = sum of Math.pow(val - mean, 2) / validValues.length
StatisticsAveraged(vals, validValues, n, mean) ==
    Given(mean,
          StatisticsDescribed(vals, SortAscending(validValues), n, mean,
                              DDiv(SumSeq([i \in Indices(validValues) |->
                                             Square(DSub(validValues[i], mean))]),
                                   FromInt(n))))

\* validValues are the entries that pass the filter, n of them
StatisticsOfValid(vals, validValues, n) ==
    IF n = 0 THEN AllZeroStatistics(Len(vals))
    ELSE StatisticsAveraged(vals, validValues, n, DDiv(SumSeq(validValues), FromInt(n)))

\* the caller's array once calculateStatistics has returned, had the sort run
\* on the filtered array in the caller's place
CallerArraySortedInPlace(vals) == SortAscending(SelectSeq(vals, DIsValid))

\* the caller's array once calculateStatistics has returned: filter builds a
\* new array and the sort runs on a copy of it
CallerArrayAfterStatistics(vals) == vals

CalculateStatistics(vals) ==
    StatisticsOfValid(vals, SelectSeq(vals, DIsValid), Len(SelectSeq(vals, DIsValid)))

DOne == FromInt(1)
DTwo == FromInt(2)
DHalf == Lit(1, 2)

\* x multiplied k times onto the power so far, one rounded product each: the
\* k factors are taken in two runs; once the power is NaN it stays NaN
RECURSIVE PowTimes(_, _, _)
PowTimes(x, k, power) ==
    IF DIsNaN(power) \/ k = 0 THEN power
    ELSE IF k = 1 THEN DMul(x, power)
    ELSE PowTimes(x, k - (k \div 2), PowTimes(x, k \div 2, power))

\* Math.pow(x, df / 2) for an integer df >= 0: x^(1/2) is the square root and
\* every further factor x of the power is one rounded product
PowHalves(x, df) ==
    Given(x, PowTimes(x, df \div 2, IF df % 2 = 0 THEN DOne ELSE DSqrt(x)))

\* the t-distribution CDF for small df; above 30 degrees of freedom the code
\* turns to normalCDF, which no series of the model is long enough to reach
MaxSmallDf == 30

\* 1 - 0.5 * Math.pow(x, df / 2)
StudentTCDFOf(x, df) == Given(x, DSub(DOne, DMul(DHalf, PowHalves(x, df))))

\* x = df / (df + t * t)
StudentTCDF(t, df) ==
    CASE df <= MaxSmallDf ->
        StudentTCDFOf(DDiv(FromInt(df), DAdd(FromInt(df), DMul(t, t))), df)

\* 2 * (1 - studentTCDF(Math.abs(t), df))
TwoSidedP(t, df) == Given(t, DMul(DTwo, DSub(DOne, StudentTCDF(DAbs(t), df))))

\* the filter of pearsonCorrelation on one pair
PairKept(xi, yi) ==
    ~JsIsNaN(xi) /\ ~JsIsNaN(yi) /\ xi.cls # "null" /\ yi.cls # "null"

MinPairs == 3

\* a degenerate case that starts below two pairs
TooFewPairsBelowTwo(len) == len < MinPairs - 1

\* pairs.length < 3
TooFewPairs(len) == len < MinPairs

\* v.reduce((a, b) => a + b, 0) / v.length
MeanOf(v) == DDiv(SumSeq(v), FromInt(Len(v)))

\* the distances of v's entries from mean
Centred(v, mean) == AsSeq([k \in DOMAIN v |-> DSub(v[k], mean)])

SumOfProducts(u, v) == SumSeq([k \in DOMAIN u |-> DMul(u[k], v[k])])

\* { r: isFinite(r) ? r : 0, pValue: isFinite(pValue) ? pValue : 1 }
PearsonReturned(r, pValue) ==
    Given(pValue,
          [r |-> IF JsIsFinite(r) THEN r ELSE DZero,
           pValue |-> IF JsIsFinite(pValue) THEN pValue ELSE DOne])

\* t = r * Math.sqrt((n - 2) / (1 - r * r))
PearsonTested(r, len) ==
    Given(r,
          PearsonReturned(r,
                          TwoSidedP(DMul(r, DSqrt(DDiv(FromInt(len - 2),
                                                       DSub(DOne, DMul(r, r))))),
                                    len - 2)))

\* r = numerator / Math.sqrt(sumXSquared * sumYSquared)
PearsonSummed(numerator, sumXSquared, sumYSquared, len) ==
    Given(<<numerator, sumXSquared, sumYSquared>>,
          PearsonTested(DDiv(numerator, DSqrt(DMul(sumXSquared, sumYSquared))), len))

\* dx and dy are the kept x and y less their means
PearsonCentred(dx, dy) ==
    Given(<<dx, dy>>,
          PearsonSummed(SumOfProducts(dx, dy), SumOfProducts(dx, dx),
                        SumOfProducts(dy, dy), Len(dx)))

PearsonPaired(xValues, yValues) ==
    PearsonCentred(Centred(xValues, MeanOf(xValues)), Centred(yValues, MeanOf(yValues)))

\* pairs are the indices the filter keeps
PearsonKept(x, y, pairs) ==
    IF TooFewPairs(Len(pairs)) THEN [r |-> DZero, pValue |-> DOne]
    ELSE PearsonPaired(AsSeq([k \in 1 .. Len(pairs) |-> x[pairs[k]]]),
                       AsSeq([k \in 1 .. Len(pairs) |-> y[pairs[k]]]))

PearsonCorrelation(x, y) ==
    PearsonKept(x, y,
                SelectSeq([i \in 1 .. (IF Len(x) < Len(y) THEN Len(x) ELSE Len(y)) |-> i],
                          LAMBDA i : PairKept(x[i], y[i])))

\* the three parts of a CorrelationMatrix read off the cells
MatrixFilled(data, n, cell) ==
  Given(cell,
    [variables |-> [i \in 1 .. n |-> data[i].name],
     matrix |-> [i \in 1 .. n |-> [j \in 1 .. n |-> cell[i][j].r]],
     pValues |-> [i \in 1 .. n |-> [j \in 1 .. n |-> cell[i][j].pValue]]])

\* the matrix with only the cells above the diagonal computed: the cells
\* below it keep the 0 they were filled with
CalculateCorrelationMatrixUpper(data) ==
    MatrixFilled(data, Len(data),
                 [i \in 1 .. Len(data) |-> AsSeq([j \in 1 .. Len(data) |->
                     IF i = j THEN [r |-> DOne, pValue |-> DZero]
                     ELSE IF i > j THEN [r |-> DZero, pValue |-> DZero]
                     ELSE PearsonCorrelation(data[i].series, data[j].series)])])

\* data is the Record<string, number[]> as the sequence of its entries, in key
\* order
CalculateCorrelationMatrix(data) ==
    MatrixFilled(data, Len(data),
                 [i \in 1 .. Len(data) |-> AsSeq([j \in 1 .. Len(data) |->
                     IF i = j THEN [r |-> DOne, pValue |-> DZero]
                     ELSE PearsonCorrelation(data[i].series, data[j].series)])])

\* (new Date(t).getTime() - firstTime) / (1000 * 3600): a timestamp is the
\* hour it names, so the quotient is the whole number of hours, exactly
HoursSince(t, first) == FromInt(t - first)

SignificanceLevel == Lit(5, 100)

\* the direction read off the slope alone, whatever the p-value
ClassifyTrendBySlope(pValue, slope) ==
    IF DGt(slope, DZero) THEN "increasing"
    ELSE IF DLt(slope, DZero) THEN "decreasing"
    ELSE "stable"

\* trend = "stable"; if (pValue < 0.05) trend = slope > 0 ? "increasing" : "decreasing"
ClassifyTrend(pValue, slope) ==
    IF DLt(pValue, SignificanceLevel)
    THEN (IF DGt(slope, DZero) THEN "increasing" ELSE "decreasing")
    ELSE "stable"

DegenerateTrend(variableName) ==
    [variable |-> variableName, slope |-> DZero, intercept |-> DZero,
     rSquared |-> DZero, pValue |-> DOne, trend |-> "stable", confidence |-> DZero]

\* values[i], undefined past the end of values
ValueAt(vals, i) == IF i <= Len(vals) THEN vals[i] ELSE DUndefined

TrendReturned(variableName, slope, intercept, rSquared, pValue) ==
  Given(pValue,
    [variable |-> variableName,
     slope |-> IF JsIsFinite(slope) THEN slope ELSE DZero,
     intercept |-> IF JsIsFinite(intercept) THEN intercept ELSE DZero,
     rSquared |-> IF JsIsFinite(rSquared) THEN rSquared ELSE DZero,
     pValue |-> IF JsIsFinite(pValue) THEN pValue ELSE DOne,
     trend |-> ClassifyTrend(pValue, slope),
     confidence |-> IF JsIsFinite(rSquared) THEN rSquared ELSE DZero])

\* tStat = slope / seSlope
TrendTested(variableName, slope, intercept, rSquared, seSlope, n) ==
    Given(<<rSquared, seSlope>>,
          TrendReturned(variableName, slope, intercept, rSquared,
                        TwoSidedP(DDiv(slope, seSlope), n - 2)))

\* rSquared = 1 - ssResidual / ssTotal;
\* seSlope = Math.sqrt(ssResidual / (n - 2)) / Math.sqrt(sumXX - sumX * sumX / n)
TrendScattered(variableName, slope, intercept, ssTotal, ssResidual, sumX, sumXX, n) ==
  Given(<<ssTotal, ssResidual>>,
    TrendTested(variableName, slope, intercept,
                DSub(DOne, DDiv(ssResidual, ssTotal)),
                DDiv(DSqrt(DDiv(ssResidual, FromInt(n - 2))),
                     DSqrt(DSub(sumXX, DDiv(DMul(sumX, sumX), FromInt(n))))),
                n))

TrendFitted(variableName, xValues, yValues, sumX, sumXX, n, slope, intercept, meanY) ==
  Given(<<intercept, meanY>>,
    TrendScattered(variableName, slope, intercept,
                   SumSeq([k \in 1 .. n |-> Square(DSub(yValues[k], meanY))]),
                   SumSeq([k \in 1 .. n |->
                             Square(DSub(yValues[k],
                                         DAdd(DMul(slope, xValues[k]), intercept)))]),
                   sumX, sumXX, n))

\* intercept = (sumY - slope * sumX) / n; meanY = sumY / n
TrendSloped(variableName, xValues, yValues, sumX, sumY, sumXX, n, slope) ==
  Given(slope,
    TrendFitted(variableName, xValues, yValues, sumX, sumXX, n, slope,
                DDiv(DSub(sumY, DMul(slope, sumX)), FromInt(n)),
                DDiv(sumY, FromInt(n))))

\* slope = (n * sumXY - sumX * sumY) / (n * sumXX - sumX * sumX)
TrendSummed(variableName, xValues, yValues, sumX, sumY, sumXY, sumXX, n) ==
  Given(<<sumX, sumY, sumXY, sumXX>>,
    TrendSloped(variableName, xValues, yValues, sumX, sumY, sumXX, n,
                DDiv(DSub(DMul(FromInt(n), sumXY), DMul(sumX, sumY)),
                     DSub(DMul(FromInt(n), sumXX), DMul(sumX, sumX)))))

TrendPaired(variableName, xValues, yValues, n) ==
  Given(<<xValues, yValues>>,
    TrendSummed(variableName, xValues, yValues,
                SumSeq(xValues),
                SumSeq(yValues),
                SumSeq([k \in 1 .. n |-> DMul(xValues[k], yValues[k])]),
                SumSeq([k \in 1 .. n |-> DMul(xValues[k], xValues[k])]),
                n))

\* pairs are the indices the filter keeps
TrendKept(timestamps, vals, variableName, pairs) ==
    IF TooFewPairs(Len(pairs)) THEN DegenerateTrend(variableName)
    ELSE TrendPaired(variableName,
                     [k \in 1 .. Len(pairs) |->
                         HoursSince(timestamps[pairs[k]], timestamps[1])],
                     [k \in 1 .. Len(pairs) |-> vals[pairs[k]]],
                     Len(pairs))

AnalyzeTrend(timestamps, vals, variableName) ==
    TrendKept(timestamps, vals, variableName,
              SelectSeq([i \in Indices(timestamps) |-> i],
                        LAMBDA i : ~JsIsNaN(ValueAt(vals, i))
                                   /\ ValueAt(vals, i).cls # "null"))

DefaultThreshold == 3
ExtremeAbove == FromInt(5)
HighAbove == FromInt(4)
MediumAbove == Lit(35, 10)

\* the severity steps taken at their bounds: >= 5, >= 4, >= 3.5
SeverityFromBound(deviation) ==
    IF DGt(deviation, ExtremeAbove) \/ deviation = ExtremeAbove THEN "extreme"
    ELSE IF DGt(deviation, HighAbove) \/ deviation = HighAbove THEN "high"
    ELSE IF DGt(deviation, MediumAbove) \/ deviation = MediumAbove THEN "medium"
    ELSE "low"

\* severity = "low"; > 5 extreme, else > 4 high, else > 3.5 medium
Severity(deviation) ==
    IF DGt(deviation, ExtremeAbove) THEN "extreme"
    ELSE IF DGt(deviation, HighAbove) THEN "high"
    ELSE IF DGt(deviation, MediumAbove) THEN "medium"
    ELSE "low"

\* the signed distance, without Math.abs
DeviationSigned(value, stats) == DDiv(DSub(value, stats.mean), stats.stdDev)

\* Math.abs(value - stats.mean) / stats.stdDev
Deviation(value, stats) == DDiv(DAbs(DSub(value, stats.mean)), stats.stdDev)

\* one record per flagged index, in index order
AnomaliesReported(timestamps, vals, variableName, stats, deviation, flagged) ==
    [k \in Indices(flagged) |->
        [timestamp |-> timestamps[flagged[k]],
         variable |-> variableName,
         value |-> vals[flagged[k]],
         expectedValue |-> stats.mean,
         deviation |-> deviation[flagged[k]],
         severity |-> Severity(deviation[flagged[k]])]]

\* if (deviation > threshold), for the values the filter of the loop lets in
AnomaliesCompared(timestamps, vals, variableName, stats, deviation, limit) ==
  Given(<<deviation, limit>>,
    AnomaliesReported(timestamps, vals, variableName, stats, deviation,
                      SelectSeq([i \in Indices(vals) |-> i],
                                LAMBDA i : DIsValid(vals[i]) /\ DGt(deviation[i], limit))))

AnomaliesMeasured(timestamps, vals, variableName, threshold, stats) ==
  Given(stats,
    AnomaliesCompared(timestamps, vals, variableName, stats,
                      [i \in Indices(vals) |->
                          IF DIsValid(vals[i]) THEN Deviation(vals[i], stats) ELSE DNaN],
                      IF threshold.cls = "undefined" THEN FromInt(DefaultThreshold)
                      ELSE threshold))

\* threshold is DUndefined when the caller leaves it out
DetectAnomalies(timestamps, vals, variableName, threshold) ==
    AnomaliesMeasured(timestamps, vals, variableName, threshold, CalculateStatistics(vals))

\* the keys of a weather record other than time, in the order the weather
\* client writes them (src/lib/api/weatherClient.ts lines 118-171)
VariableKeys ==
    <<"temperature", "solarIrradiance", "surfacePressure", "relativeHumidity",
      "precipitation", "cloudCover", "windSpeed">>

KeySet == {VariableKeys[i] : i \in Indices(VariableKeys)}

CriticalVars == {"temperature", "surfacePressure", "relativeHumidity"}

\* ranges: min and max per variable (lines 310-317)
Ranges ==
    [temperature |-> <<N(-60), N(60)>>,
     surfacePressure |-> <<N(800), N(1100)>>,
     relativeHumidity |-> <<N(0), N(100)>>,
     windSpeed |-> <<N(0), N(100)>>,
     solarIrradiance |-> <<N(0), N(1500)>>,
     precipitation |-> <<N(0), N(500)>>]

MaxSuspiciousListed == 50

\* only the lower end of the range checked
IsSuspiciousBelowOnly(record, key) ==
    /\ key \in DOMAIN Ranges
    /\ IsDefined(record[key])
    /\ Lt(record[key], Ranges[key][1])

IsSuspicious(record, key) ==
    /\ key \in DOMAIN Ranges
    /\ IsDefined(record[key])
    /\ (Lt(record[key], Ranges[key][1]) \/ Gt(record[key], Ranges[key][2]))

\* the suspicious values one record adds, in key order
RecordSuspicious(record) ==
    LET keys == SelectSeq(VariableKeys, LAMBDA k : IsSuspicious(record, k))
    IN  [i \in Indices(keys) |->
            [timestamp |-> record.time, variable |-> keys[i], value |-> record[keys[i]]]]

RECURSIVE AllSuspicious(_)
AllSuspicious(series) ==
    IF series = <<>> THEN <<>>
    ELSE AllSuspicious(SubSeq(series, 1, Len(series) - 1))
             \o RecordSuspicious(series[Len(series)])

\* a record taken as complete only when every variable holds a number
IsCompleteRecordAllKeys(record) == \A k \in KeySet : IsValidNumber(record[k])

IsCompleteRecord(record) == \A k \in CriticalVars : IsValidNumber(record[k])

GenerateDataQualityReport(series) ==
    LET totalRecords == Len(series)
        completeRecords == Cardinality({i \in Indices(series) : IsCompleteRecord(series[i])})
        suspiciousValues == AllSuspicious(series)
        validCount(k) == Cardinality({i \in Indices(series) : IsValidNumber(series[i][k])})
        variableCompleteness ==
            [k \in (IF totalRecords = 0 THEN {} ELSE KeySet) |->
                Mul(Div(N(validCount(k)), N(totalRecords)), N(100))]
        missingDataPercentage ==
            Mul(Div(N(totalRecords - completeRecords), N(totalRecords)), N(100))
        qualityScore ==
            MathMax(N(0),
                    Sub(Sub(N(100), missingDataPercentage),
                        Mul(Div(N(Len(suspiciousValues)), N(totalRecords)), N(100))))
    IN  [totalRecords |-> totalRecords,
         completeRecords |-> completeRecords,
         missingDataPercentage |-> missingDataPercentage,
         qualityScore |-> qualityScore,
         variableCompleteness |-> variableCompleteness,
         outlierCount |-> Len(suspiciousValues),
         suspiciousValues |->
             SubSeq(suspiciousValues, 1,
                    IF Len(suspiciousValues) < MaxSuspiciousListed
                    THEN Len(suspiciousValues) ELSE MaxSuspiciousListed)]

\* extractVariable: typeof value === "number" ? value : NaN
ExtractVariable(series, key) ==
    AsSeq([i \in Indices(series) |->
              IF IsDefined(series[i][key]) THEN ToDouble(series[i][key]) ELSE DNaN])

\* values.some((v) => !isNaN(v))
HasSomeNumber(vals) == \E i \in Indices(vals) : ~JsIsNaN(vals[i])

CorrelationVars == <<"temperature", "surfacePressure", "relativeHumidity", "windSpeed", "solarIrradiance">>
TrendVars == <<"temperature", "surfacePressure", "windSpeed", "solarIrradiance">>
AnomalyVars == <<"temperature", "surfacePressure", "windSpeed">>

\* the names among keys whose extracted series holds a number, in order
WithNumbers(series, keys) ==
    SelectSeq(keys, LAMBDA k : HasSomeNumber(ExtractVariable(series, k)))

RECURSIVE Flatten(_)
Flatten(ss) == IF ss = <<>> THEN <<>> ELSE ss[1] \o Flatten(Tail(ss))

\* the entries of the Record handed to the analysis: name and extracted series
NamedSeries(series, keys) ==
    AsSeq([i \in Indices(keys) |->
              [name |-> keys[i], series |-> ExtractVariable(series, keys[i])]])

ResearchBundle(location, series, times, described, correlated, trended, screened) ==
    [location |-> location,
     timeRange |-> <<series[1].time, series[Len(series)].time>>,
     weatherData |-> series,
     statistics |->
         [k \in described |-> CalculateStatistics(ExtractVariable(series, k))],
     correlations |->
         IF Len(correlated) > 1 THEN CalculateCorrelationMatrix(correlated)
         ELSE NoCorrelation,
     trends |->
         [i \in Indices(trended) |->
             AnalyzeTrend(times, trended[i].series, trended[i].name)],
     anomalies |->
         Flatten([i \in Indices(screened) |->
                     DetectAnomalies(times, screened[i].series, screened[i].name,
                                     DUndefined)]),
     dataQuality |-> GenerateDataQualityReport(series)]

\* the bundle generateAtmosphericResearchData returns for a non-empty series
\* (location and weatherData are handed through)
ResearchData(location, series) ==
    ResearchBundle(location, series,
                   AsSeq([i \in Indices(series) |-> series[i].time]),
                   {key \in KeySet : HasSomeNumber(ExtractVariable(series, key))},
                   NamedSeries(series, WithNumbers(series, CorrelationVars)),
                   NamedSeries(series, WithNumbers(series, TrendVars)),
                   NamedSeries(series, WithNumbers(series, AnomalyVars)))

\* generateAtmosphericResearchData answering an empty series with an empty
\* bundle in place of the throw
GenerateAtmosphericResearchDataNoThrow(location, series) ==
    IF Len(series) = 0
    THEN ReturnedResearch([NoResearch EXCEPT
                             !.location = location,
                             !.dataQuality = GenerateDataQualityReport(series)])
    ELSE ReturnedResearch(ResearchData(location, series))

GenerateAtmosphericResearchData(location, series) ==
    IF Len(series) = 0
    THEN Threw("No weather data available for analysis")
    ELSE ReturnedResearch(ResearchData(location, series))

----------------------------------------------------------------------------
(* Location history in localStorage: src/unnamed/part_007                  *)

HistoryLimit == 20

\* localStorage.getItem gives null: the item was never set, or was removed
NoItem == [present |-> FALSE, list |-> <<>>]

\* the item setItem(key, JSON.stringify(list)) leaves
Item(list) == [present |-> TRUE, list |-> list]

\* x.toFixed(4) of a finite number, as the number of ten-thousandths: the
\* nearest one, the one larger in magnitude of two equally near
ToFixed4(x) ==
    (IF x[1] < 0 THEN -1 ELSE 1)
        * (10000 * (Abs(x[1]) \div x[2])
             + (2 * 10000 * (Abs(x[1]) % x[2]) + x[2]) \div (2 * x[2]))

\* the template strings of generateLocationId, part by part
GenerateLocationId(location, a) ==
    <<ToFixed4(location.latitude), ToFixed4(location.longitude), a.type,
      IF a.type = "solar" THEN a.dcCapacity ELSE a.ratedCapacity,
      IF a.type = "solar" THEN a.systemLosses ELSE a.hubHeight>>

\* data ? JSON.parse(data) : []
GetLocationHistory(item) == IF item.present THEN item.list ELSE <<>>

\* history.filter((loc) => loc.id !== id)
WithoutId(history, id) == SelectSeq(history, LAMBDA loc : loc.id # id)

\* list.slice(0, 20)
Slice20(list) ==
    SubSeq(list, 1, IF Len(list) < HistoryLimit THEN Len(list) ELSE HistoryLimit)

SavedLocation(location, a, nickname, now) ==
    [id |-> GenerateLocationId(location, a), location |-> location, asset |-> a,
     timestamp |-> now, isFavorite |-> FALSE, nickname |-> nickname]

\* saveLocationToHistory appending the entry to the front of the history as
\* it is, an entry of the same id staying in the list
SaveLocationKeepingDuplicate(item, location, a, nickname, now) ==
    Item(Slice20(<<SavedLocation(location, a, nickname, now)>> \o GetLocationHistory(item)))

\* saveLocationToHistory carrying the favourite mark of the entry it replaces
SaveLocationKeepingFavorite(item, location, a, nickname, now) ==
    Item(Slice20(<<[SavedLocation(location, a, nickname, now) EXCEPT
                 !.isFavorite = \E i \in DOMAIN GetLocationHistory(item) :
                                   /\ GetLocationHistory(item)[i].id
                                         = GenerateLocationId(location, a)
                                   /\ GetLocationHistory(item)[i].isFavorite]>>
            \o WithoutId(GetLocationHistory(item), GenerateLocationId(location, a))))

\* the item saveLocationToHistory writes
SaveLocationToHistory(item, location, a, nickname, now) ==
    Item(Slice20(<<SavedLocation(location, a, nickname, now)>>
                 \o WithoutId(GetLocationHistory(item), GenerateLocationId(location, a))))

\* history.find((loc) => loc.id === id): the index of the first such entry,
\* 0 when there is none
FindIndex(history, id) ==
    IF \E i \in DOMAIN history : history[i].id = id
    THEN CHOOSE i \in DOMAIN history :
             history[i].id = id /\ \A j \in 1 .. i - 1 : history[j].id # id
    ELSE 0

\* the item after toggleFavorite: nothing is written when the id is not found
ToggleFavorite(item, id) ==
    IF FindIndex(GetLocationHistory(item), id) = 0 THEN item
    ELSE Item([GetLocationHistory(item) EXCEPT
                 ![FindIndex(GetLocationHistory(item), id)].isFavorite = ~@])

\* the item after updateLocationNickname
UpdateLocationNickname(item, id, nickname) ==
    IF FindIndex(GetLocationHistory(item), id) = 0 THEN item
    ELSE Item([GetLocationHistory(item) EXCEPT
                 ![FindIndex(GetLocationHistory(item), id)].nickname = nickname])

\* the item after deleteLocation: the filtered list is written in any case
DeleteLocation(item, id) == Item(WithoutId(GetLocationHistory(item), id))

----------------------------------------------------------------------------
(* BatchAnalysis: processBatch                                             *)
(*                                                                         *)
(* A text that may be absent (currentLocation, error) is a one-element     *)
(* tuple when present and the empty tuple when absent.                      *)

\* the progress state before any run (null)
NoProgress ==
    [present |-> FALSE, total |-> 0, completed |-> 0, failed |-> 0,
     percentage |-> N(0), currentLocation |-> Undef]

\* setProgress({total: locations.length, completed: 0, failed: 0, percentage: 0})
StartedProgress(locs) ==
    [present |-> TRUE, total |-> Len(locs), completed |-> 0, failed |-> 0,
     percentage |-> N(0), currentLocation |-> Undef]

\* setProgress(prev => ({...prev, currentLocation: loc.name}))
ProgressAt(prev, loc) == [prev EXCEPT !.currentLocation = loc.name]

\* ((prev.completed + 1) / prev.total) * 100
PercentageAfter(prev) == Mul(Div(N(prev.completed + 1), N(prev.total)), N(100))

\* the update of the success branch
ProgressAfterSuccess(prev) ==
    [prev EXCEPT !.completed = prev.completed + 1,
                 !.percentage = PercentageAfter(prev)]

\* the update of the catch branch
ProgressAfterFailure(prev) ==
    [prev EXCEPT !.failed = prev.failed + 1,
                 !.completed = prev.completed + 1,
                 !.percentage = PercentageAfter(prev)]

\* x || 0 on a number that may be absent
OrZero(x) == IF ~IsDefined(x) \/ IsNaN(x) \/ x = N(0) THEN N(0) ELSE x

\* outputs.reduce((sum, o) => sum + o.power, 0)
TotalEnergy(outputs) == SumOf(AsSeq([k \in DOMAIN outputs |-> outputs[k].power]))

\* outputs.reduce((sum, o) => sum + (o.capacity || 0), 0) / outputs.length
AvgCapacity(outputs) ==
    Div(SumOf(AsSeq([k \in DOMAIN outputs |-> OrZero(outputs[k].capacity)])),
        N(Len(outputs)))

\* totalEnergy * avgCapacity
ScoreOf(outputs) == Mul(TotalEnergy(outputs), AvgCapacity(outputs))

\* the entry of a location whose forecast arrived (rank 0: not ranked yet)
ScoredResult(loc, outputs) ==
    [location |-> loc, forecast |-> outputs, score |-> ScoreOf(outputs),
     error |-> Undef, rank |-> 0]

\* the entry of a location whose request threw
FailedResult(loc, message) ==
    [location |-> loc, forecast |-> <<>>, score |-> Undef,
     error |-> message, rank |-> 0]

\* the message of the Error thrown on a body without success:
\* forecastData.error?.message || "Failed to fetch forecast"
MessageOf(response) ==
    IF IsDefined(response.message) THEN response.message
    ELSE <<"Failed to fetch forecast">>

\* one pass of the loop body after its fetch settled: a rejected fetch or
\* an unreadable body throws its own error, a body without success throws
\* MessageOf, a body with success is scored
ResultOf(loc, response) ==
    IF response.kind = "rejected" THEN FailedResult(loc, response.message)
    ELSE IF response.success THEN ScoredResult(loc, response.outputs)
    ELSE FailedResult(loc, MessageOf(response))

ProgressAfter(prev, response) ==
    IF response.kind = "json" /\ response.success THEN ProgressAfterSuccess(prev)
    ELSE ProgressAfterFailure(prev)

\* the comparator of the ranking, (b.score || 0) - (a.score || 0), puts a
\* before b when it is negative; Array.prototype.sort is stable
SortsBefore(entries, i, j) ==
    \/ Gt(OrZero(entries[i].score), OrZero(entries[j].score))
    \/ /\ OrZero(entries[i].score) = OrZero(entries[j].score)
       /\ i < j

SortedPosition(entries, j) ==
    1 + Cardinality({i \in DOMAIN entries : SortsBefore(entries, i, j)})

\* batchResults.sort(...)
SortByScore(entries) ==
    AsSeq([k \in DOMAIN entries |->
              entries[CHOOSE j \in DOMAIN entries : SortedPosition(entries, j) = k]])

\* batchResults.forEach((result, idx) => { result.rank = idx + 1 })
WithRanks(entries) == AsSeq([k \in DOMAIN entries |-> [entries[k] EXCEPT !.rank = k]])

\* the frame of processBatch: what it is suspended on ("fetch": the request
\* of locations[i], "delay": the 500 ms after it), the index i of the loop
\* counted from 1, and the locations list its closure captured
NotStarted == [on |-> "nothing", i |-> 0, locations |-> <<>>]

\* the ranking without its sort
RankResultsAsProcessed(entries) == WithRanks(entries)

\* the ranking at the end of processBatch
RankResults(entries) == WithRanks(SortByScore(entries))

----------------------------------------------------------------------------
(* GET /api/national-map                                                   *)

BatchSize == 5

\* bounds of the grid and its steps, in degrees
South == 25
North == 49
West == -125
East == -66
LatStep == 4
LonStep == 5

\* the hours asked of fetchOpenMeteoForecast for every grid point
MapForecastHours == 24

\* how many longitudes the inner loop visits per latitude
GridColumns == (East - West) \div LonStep + 1
GridRows == (North - South) \div LatStep + 1

\* samplePoints[k] (k from 0): latitudes outside, longitudes inside
SamplePoint(k) ==
    [lat |-> South + LatStep * (k \div GridColumns),
     lon |-> West + LonStep * (k % GridColumns)]

\* the characters of a decimal digit string
IsDigit(c) == c \in {"0", "1", "2", "3", "4", "5", "6", "7", "8", "9"}

DigitValue(c) ==
    CASE c = "0" -> 0 [] c = "1" -> 1 [] c = "2" -> 2 [] c = "3" -> 3
      [] c = "4" -> 4 [] c = "5" -> 5 [] c = "6" -> 6 [] c = "7" -> 7
      [] c = "8" -> 8 [] c = "9" -> 9

RECURSIVE LeadingDigits(_, _)
LeadingDigits(text, sofar) ==
    IF text = <<>> \/ ~IsDigit(Head(text)) THEN sofar
    ELSE LeadingDigits(Tail(text), 10 * sofar + DigitValue(Head(text)))

\* parseInt of a text given as its characters: an optional sign, then the
\* longest run of digits; NaN when no digit follows
ParseInt(text) ==
    IF text # <<>> /\ Head(text) \in {"-", "+"}
    THEN IF Len(text) > 1 /\ IsDigit(text[2])
         THEN N((IF Head(text) = "-" THEN -1 ELSE 1) * LeadingDigits(Tail(text), 0))
         ELSE NaN
    ELSE IF text # <<>> /\ IsDigit(Head(text)) THEN N(LeadingDigits(text, 0))
    ELSE NaN

\* parseInt(searchParams.get("hour") || "0"): a missing and an empty
\* parameter are both the empty text
HourOf(text) == ParseInt(IF text = <<>> THEN <<"0">> ELSE text)

\* !type || (type !== "solar" && type !== "wind"); a missing type is ""
TypeRejected(type) == type = "" \/ (type # "solar" /\ type # "wind")

\* hour < 0 || hour > 23
HourRejected(hour) == Lt(hour, N(0)) \/ Gt(hour, N(23))

NoMapRequest == [type |-> "", hour |-> Undef]

NoMapResponse ==
    [status |-> 0, success |-> FALSE, error |-> "", type |-> "", gridPoints |-> <<>>]

MapError(status, error) == [NoMapResponse EXCEPT !.status = status, !.error = error]

MapSuccess(type, points) ==
    [NoMapResponse EXCEPT !.status = 200, !.success = TRUE, !.type = type,
                          !.gridPoints = points]

\* what a promise of batchPromises resolves to: null (present FALSE), or a
\* GridPoint; settled tells a resolved promise from a pending one
NullPoint ==
    [settled |-> TRUE, present |-> FALSE, latitude |-> 0, longitude |-> 0,
     value |-> N(0)]

GridPointOf(point, value) ==
    [settled |-> TRUE, present |-> TRUE, latitude |-> point.lat,
     longitude |-> point.lon, value |-> value]

\* the value read from weatherData[hour]
ValueOf(type, hourData) ==
    IF type = "solar" THEN OrZero(hourData.solarIrradiance)
    ELSE IF type = "wind" THEN OrZero(hourData.windSpeed)
    ELSE N(0)

\* the async callback of batch.map for one point, given how the weather
\* request ended
PointPromise(point, reply, type, hour) ==
    IF reply.kind = "rejected" THEN NullPoint
    ELSE IF Gt(N(Len(reply.weatherData)), hour)
         THEN GridPointOf(point, ValueOf(type, reply.weatherData[hour[1] + 1]))
         ELSE NullPoint

\* a promise of the batch that has not settled
PendingPoint == [NullPoint EXCEPT !.settled = FALSE]

\* the grid indices (from 1) of samplePoints.slice(i) for a list of n points
SliceToEnd(i, n) == i + 1 .. n

\* the grid indices (from 1) of samplePoints.slice(i, i + batchSize)
BatchSlice(i, n) == i + 1 .. (IF i + BatchSize < n THEN i + BatchSize ELSE n)

\* batchResults.filter(p => p !== null)
ValidBatchPoints(settled) == SelectSeq(settled, LAMBDA p : p.present)

\* the answer once every batch is done
MapAnswer(type, points) ==
    IF Len(points) = 0 THEN MapError(404, "NO_DATA") ELSE MapSuccess(type, points)

\* the browser before any of its functions has run
\* (number counts the calls; found and wasFavorite tell whether an entry of
\* the call's id was in the history when it began, and marked favourite)
NoHistoryCall ==
    [name |-> "none", id |-> Undef, nickname |-> Undef, number |-> 0,
     found |-> FALSE, wasFavorite |-> FALSE]

HistoryIdle ==
    /\ storage = NoItem
    /\ clock = 0
    /\ historyCall = NoHistoryCall
    /\ savedAt = <<>>
    /\ saves = 0

\* BatchAnalysis as mounted: no CSV loaded, nothing running, no results
BatchIdle ==
    /\ locations = <<>>
    /\ isProcessing = FALSE
    /\ progress = NoProgress
    /\ results = <<>>
    /\ batchResults = <<>>
    /\ awaiting = NotStarted

\* no national-map request received
MapIdle ==
    /\ mapRequest = NoMapRequest
    /\ mapStep = "idle"
    /\ batchStart = 0
    /\ inFlight = {}
    /\ weatherReplies = <<>>
    /\ batchPromises = <<>>
    /\ validPoints = <<>>
    /\ mapResponse = NoMapResponse

ClientIdle == HistoryIdle /\ BatchIdle /\ MapIdle

----------------------------------------------------------------------------
(* Inputs of the forecast model                                            *)

MaxHours == 2

Hour(t, temperature, solarIrradiance, cloudCover, windSpeed) ==
    [time |-> t, temperature |-> temperature, solarIrradiance |-> solarIrradiance,
     cloudCover |-> cloudCover, windSpeed |-> windSpeed,
     surfacePressure |-> Undef, relativeHumidity |-> Undef, precipitation |-> Undef]

IrradianceValues == {Undef, N(0), N(800), N(1500), N(9000)}
\* irradiances given to calculateSolarPower directly
DirectIrradiances == {N(-100), N(0), N(800)}
\* <<cloudCover, temperature>> of a solar sample
SolarConditions == {<<Undef, Undef>>, <<Undef, N(25)>>, <<N(50), N(25)>>, <<N(150), Undef>>}

WindSpeedValues == {Undef, N(0), N(1), N(4), N(9), N(20)}
\* -42.63 C gives the density ratio 288.15 / 230.52 = 1.25
WindTemperatures == {Undef, Q(-4263, 100)}

SolarSamples ==
    {Hour(0, c[2], g, c[1], Undef) : g \in IrradianceValues, c \in SolarConditions}
WindSamples ==
    {Hour(0, T, Undef, Undef, v) : v \in WindSpeedValues, T \in WindTemperatures}

\* every series of at most MaxHours samples; sample i is stamped with hour i
SeriesOf(samples) ==
    UNION {{[i \in 1 .. n |-> [f[i] EXCEPT !.time = i]] : f \in [1 .. n -> samples]}
           : n \in 0 .. MaxHours}

\* <<dcCapacity, systemLosses>>
SolarConfigs == {<<N(-5), Undef>>, <<N(0), Undef>>, <<N(7), Undef>>, <<N(7), N(100)>>}

SolarAssets ==
    {[type |-> "solar", dcCapacity |-> c[1], systemLosses |-> c[2]] : c \in SolarConfigs}

\* <<cutInSpeed, ratedSpeed, cutOutSpeed>>
\* (the forms take any three numbers: the last has its cut-out below rated)
Thresholds == {<<Undef, Undef, Undef>>, <<N(4), N(10), N(20)>>, <<N(4), N(10), N(8)>>}

WindAssets ==
    {[type |-> "wind", ratedCapacity |-> c, hubHeight |-> h,
      cutInSpeed |-> th[1], ratedSpeed |-> th[2], cutOutSpeed |-> th[3]]
       : c \in {N(-1), N(0), Q(3, 2)}, h \in {N(0), N(10), N(100)}, th \in Thresholds}

ReferenceHeights == {N(0), N(DefaultReferenceHeight)}

\* hub-height speeds given to calculateWindPower directly
HubSpeeds ==
    {N(0), N(2), N(3), N(4), N(7), N(8), N(9), N(10), N(12), N(20), N(25), N(26)}

----------------------------------------------------------------------------
(* The forecast calls as a state machine: a request is drawn, one call runs *)

InitForecast ==
    /\ asset \in SolarAssets \cup WindAssets
    /\ weatherData \in (IF asset.type = "solar" THEN SeriesOf(SolarSamples)
                        ELSE SeriesOf(WindSamples))
    /\ referenceHeight \in (IF asset.type = "solar" THEN {N(DefaultReferenceHeight)}
                            ELSE ReferenceHeights)
    /\ call = "none"
    /\ arg = Undef
    /\ values = <<>>
    /\ dataArg = <<>>
    /\ timestampsArg = <<>>
    /\ thresholdArg = DUndefined
    /\ result = NoResult
    /\ ClientIdle

CallGenerateSolarForecast ==
    /\ call = "none"
    /\ asset.type = "solar"
    /\ call' = "generateSolarForecast"
    /\ result' = GenerateSolarForecast(asset, weatherData)
    /\ UNCHANGED <<asset, referenceHeight, weatherData, arg, values,
                 dataArg, timestampsArg, thresholdArg>>
    /\ UNCHANGED clientVars

CallGenerateWindForecast ==
    /\ call = "none"
    /\ asset.type = "wind"
    /\ call' = "generateWindForecast"
    /\ result' = GenerateWindForecast(asset, weatherData, referenceHeight)
    /\ UNCHANGED <<asset, referenceHeight, weatherData, arg, values,
                 dataArg, timestampsArg, thresholdArg>>
    /\ UNCHANGED clientVars

CallCalculateSolarPower ==
    /\ call = "none"
    /\ asset.type = "solar"
    /\ weatherData = <<>>
    /\ \E g \in DirectIrradiances :
          /\ arg' = g
          /\ result' = ReturnedNumber(CalculateSolarPower(g, asset.dcCapacity, asset.systemLosses))
    /\ call' = "calculateSolarPower"
    /\ UNCHANGED <<asset, referenceHeight, weatherData, values,
                 dataArg, timestampsArg, thresholdArg>>
    /\ UNCHANGED clientVars

CallCalculateWindPower ==
    /\ call = "none"
    /\ asset.type = "wind"
    /\ weatherData = <<>>
    /\ \E v \in HubSpeeds :
          /\ arg' = v
          /\ result' = ReturnedNumber(CalculateWindPower(v, asset))
    /\ call' = "calculateWindPower"
    /\ UNCHANGED <<asset, referenceHeight, weatherData, values,
                 dataArg, timestampsArg, thresholdArg>>
    /\ UNCHANGED clientVars

CallPostForecast ==
    /\ call = "none"
    /\ referenceHeight = N(DefaultReferenceHeight)
    /\ \E locationOk \in BOOLEAN, assetOk \in BOOLEAN, fetchOk \in BOOLEAN :
          result' = ReturnedResponse(PostForecast(locationOk, assetOk, fetchOk, asset, weatherData))
    /\ call' = "POST /api/forecast"
    /\ UNCHANGED <<asset, referenceHeight, weatherData, arg, values,
                 dataArg, timestampsArg, thresholdArg>>
    /\ UNCHANGED clientVars

NextForecast ==
    \/ CallGenerateSolarForecast
    \/ CallGenerateWindForecast
    \/ CallCalculateSolarPower
    \/ CallCalculateWindPower
    \/ CallPostForecast

SpecForecast == InitForecast /\ [][NextForecast]_vars

----------------------------------------------------------------------------
(* The statistics calls as a state machine: a series is drawn, one call runs *)

\* the calls of this machine take no asset
NoAsset == [type |-> "none"]

\* the locations generateAtmosphericResearchData is called for: one with and
\* one without an address
Locations ==
    {[address |-> "Austin, TX", latitude |-> Q(302672, 10000), longitude |-> Q(-977431, 10000)],
     [latitude |-> N(40), longitude |-> N(-105)]}

ResearchTemperatures == {Undef, NaN, N(20), N(70)}
ResearchPressures == {Undef, N(1000)}
ResearchHumidities == {Undef, N(50)}

\* the samples without wind: every temperature with the other two critical
\* variables present, and every choice of those two under one temperature
CalmSamples ==
    {[Hour(0, T, Undef, Undef, Undef) EXCEPT !.surfacePressure = ph[1],
                                             !.relativeHumidity = ph[2]]
       : T \in ResearchTemperatures, ph \in {<<N(1000), N(50)>>}}
    \cup {[Hour(0, N(20), Undef, Undef, Undef) EXCEPT !.surfacePressure = p,
                                                      !.relativeHumidity = h]
            : p \in ResearchPressures, h \in ResearchHumidities}

\* two samples with a wind speed, one with and one without a temperature
WindySamples ==
    {[Hour(0, T, Undef, Undef, N(5)) EXCEPT !.surfacePressure = N(1000),
                                            !.relativeHumidity = N(50)]
       : T \in {Undef, N(20)}}

ResearchSamples == CalmSamples \cup WindySamples

\* a sample with every ranged variable out of its range, and one with two
StormSample ==
    [time |-> 0, temperature |-> N(70), solarIrradiance |-> N(2000), cloudCover |-> Undef,
     windSpeed |-> N(150), surfacePressure |-> N(700), relativeHumidity |-> N(150),
     precipitation |-> N(-1)]

GustSample ==
    [StormSample EXCEPT !.solarIrradiance = N(0), !.surfacePressure = N(1000),
                        !.relativeHumidity = N(50), !.precipitation = N(0)]

StormHours == 9

\* the series long enough to fill the list of suspicious values: n storm
\* samples, and n - 1 of them before a gust sample
StormSeries ==
    {[i \in 1 .. n |-> [(IF i = n THEN last ELSE StormSample) EXCEPT !.time = i]]
       : n \in StormHours - 1 .. StormHours, last \in {StormSample, GustSample}}

InitResearch ==
    /\ asset = NoAsset
    /\ referenceHeight = N(DefaultReferenceHeight)
    /\ weatherData \in SeriesOf(ResearchSamples) \cup StormSeries
    /\ call = "none"
    /\ arg = Undef
    /\ values = <<>>
    /\ dataArg = <<>>
    /\ timestampsArg = <<>>
    /\ thresholdArg = DUndefined
    /\ result = NoResult
    /\ ClientIdle

CallCalculateStatistics ==
    /\ call = "none"
    /\ values = <<>>
    /\ \E k \in KeySet :
          /\ values' = CallerArrayAfterStatistics(ExtractVariable(weatherData, k))
          /\ result' = ReturnedStatistics(CalculateStatistics(ExtractVariable(weatherData, k)))
    /\ call' = "calculateStatistics"
    /\ UNCHANGED <<asset, referenceHeight, weatherData, arg,
                 dataArg, timestampsArg, thresholdArg>>
    /\ UNCHANGED clientVars

CallGenerateDataQualityReport ==
    /\ call = "none"
    /\ call' = "generateDataQualityReport"
    /\ result' = ReturnedReport(GenerateDataQualityReport(weatherData))
    /\ UNCHANGED <<asset, referenceHeight, weatherData, arg, values,
                 dataArg, timestampsArg, thresholdArg>>
    /\ UNCHANGED clientVars

CallGenerateAtmosphericResearchData ==
    /\ call = "none"
    /\ call' = "generateAtmosphericResearchData"
    /\ \E location \in Locations :
          /\ arg' = location
          /\ result' = GenerateAtmosphericResearchData(location, weatherData)
    /\ UNCHANGED <<asset, referenceHeight, weatherData, values,
                 dataArg, timestampsArg, thresholdArg>>
    /\ UNCHANGED clientVars

NextResearch ==
    \/ CallCalculateStatistics
    \/ CallGenerateDataQualityReport
    \/ CallGenerateAtmosphericResearchData

SpecResearch == InitResearch /\ [][NextResearch]_vars

----------------------------------------------------------------------------
(* The analysis calls as a state machine: calculateCorrelationMatrix,      *)
(* analyzeTrend, detectAnomalies and calculateStatistics are exported and  *)
(* take arrays of numbers; an input is drawn, one call runs                *)

MaxPoints == 3

\* the entries of the drawn arrays: NaN, integers, and two decimals that no
\* double holds exactly
Tenth == Lit(1, 10)
Fifth == Lit(2, 10)
PointValues == {DNaN, FromInt(0), FromInt(1), Tenth}

\* 2^-700, a number whose square is below the smallest double
Tiny == Round(FALSE, BOne, -700, FALSE)

\* every array of at most MaxPoints entries
Arrays == UNION {[1 .. n -> PointValues] : n \in 0 .. MaxPoints}

\* count copies of v
Repeat(v, count) == [i \in 1 .. count |-> v]

\* count zeros and then count + 1: the mean is 1, the standard deviation is
\* sqrt(count) and the last value lies sqrt(count) deviations off the mean
Spike(count) == Append(Repeat(DZero, count), FromInt(count + 1))

SpikeCounts == {9, 10, 13, 16, 17, 25, 26}

\* further arrays: straight and near-straight runs, arrays with null,
\* undefined and infinite entries, a tiny value, a run of one pressure
\* reading, four and five round values out of order and in order, 25 readings
\* of 19.6 before one of 30
LongArrays ==
    {<<FromInt(0), FromInt(1), FromInt(2)>>,
     <<FromInt(2), FromInt(1), FromInt(0)>>,
     <<FromInt(0), FromInt(1), FromInt(2), Lit(31, 10), FromInt(4)>>,
     <<FromInt(4), Lit(31, 10), FromInt(2), FromInt(1), FromInt(0)>>,
     <<FromInt(0), DNull, FromInt(1), DUndefined, FromInt(2), DNaN>>,
     <<DNull, DUndefined, FromInt(1)>>,
     <<DNull, DUndefined, DNaN, DNull>>,
     <<DInf(FALSE), FromInt(1), DNull>>,
     <<Tiny, DZero, DZero>>,
     Repeat(Lit(10132, 10), 3),
     <<FromInt(40), FromInt(10), FromInt(30), FromInt(20)>>,
     <<FromInt(30), FromInt(10), FromInt(50), FromInt(20), FromInt(40)>>,
     <<FromInt(10), FromInt(20), FromInt(30), FromInt(40), FromInt(50)>>,
     Append(Repeat(Lit(196, 10), 25), FromInt(30))}
    \cup {Spike(k) : k \in SpikeCounts}

\* the arrays a variable is correlated with
Partner == <<FromInt(1), FromInt(1), FromInt(6)>>
FlatPartner == Repeat(Fifth, MaxPoints + 1)
SparsePartner == <<DNull, FromInt(1), DUndefined, FromInt(6), DNaN>>

Entry(name, series) == [name |-> name, series |-> series]

\* the variable maps drawn for an array x: none, x alone, x twice, x beside
\* an array with gaps, x beside two full arrays
MapsOf(x) ==
    {<<>>,
     <<Entry("a", x)>>,
     <<Entry("a", x), Entry("b", x)>>,
     <<Entry("a", x), Entry("b", SparsePartner)>>,
     <<Entry("a", x), Entry("b", Partner), Entry("c", FlatPartner)>>}

CorrelationInputs == UNION {MapsOf(x) : x \in Arrays}

AnomalyThresholds == {DUndefined, DZero, DHalf, FromInt(3)}

\* sample i of an array is stamped with hour i
HourStamps(n) == [i \in 1 .. n |-> i]

InitAnalysis ==
    /\ asset = NoAsset
    /\ referenceHeight = N(DefaultReferenceHeight)
    /\ weatherData = <<>>
    /\ call = "none"
    /\ arg = Undef
    /\ \/ /\ dataArg \in CorrelationInputs
          /\ values = <<>>
          /\ thresholdArg = DUndefined
       \/ /\ dataArg = <<>>
          /\ values \in Arrays \cup LongArrays
          /\ thresholdArg \in AnomalyThresholds
    /\ timestampsArg = HourStamps(Len(values))
    /\ result = NoResult
    /\ ClientIdle

CallCalculateCorrelationMatrix ==
    /\ call = "none"
    /\ values = <<>>
    /\ call' = "calculateCorrelationMatrix"
    /\ result' = ReturnedCorrelation(CalculateCorrelationMatrix(dataArg))
    /\ UNCHANGED <<asset, referenceHeight, weatherData, arg, values,
                 dataArg, timestampsArg, thresholdArg>>
    /\ UNCHANGED clientVars

CallAnalyzeTrend ==
    /\ call = "none"
    /\ dataArg = <<>>
    /\ thresholdArg = DUndefined
    /\ call' = "analyzeTrend"
    /\ result' = ReturnedTrend(AnalyzeTrend(timestampsArg, values, "variable"))
    /\ UNCHANGED <<asset, referenceHeight, weatherData, arg, values,
                 dataArg, timestampsArg, thresholdArg>>
    /\ UNCHANGED clientVars

CallDetectAnomalies ==
    /\ call = "none"
    /\ dataArg = <<>>
    /\ call' = "detectAnomalies"
    /\ result' = ReturnedAnomalies(DetectAnomalies(timestampsArg, values, "variable",
                                                   thresholdArg))
    /\ values' = CallerArrayAfterStatistics(values)
    /\ UNCHANGED <<asset, referenceHeight, weatherData, arg,
                 dataArg, timestampsArg, thresholdArg>>
    /\ UNCHANGED clientVars

CallCalculateStatisticsOfArray ==
    /\ call = "none"
    /\ dataArg = <<>>
    /\ thresholdArg = DUndefined
    /\ call' = "calculateStatistics"
    /\ result' = ReturnedStatistics(CalculateStatistics(values))
    /\ values' = CallerArrayAfterStatistics(values)
    /\ UNCHANGED <<asset, referenceHeight, weatherData, arg,
                 dataArg, timestampsArg, thresholdArg>>
    /\ UNCHANGED clientVars

NextAnalysis ==
    \/ CallCalculateCorrelationMatrix
    \/ CallAnalyzeTrend
    \/ CallDetectAnomalies
    \/ CallCalculateStatisticsOfArray

SpecAnalysis == InitAnalysis /\ [][NextAnalysis]_vars

\* the calls on one array alone: analyzeTrend, detectAnomalies and
\* calculateStatistics
InitSeries == InitAnalysis /\ dataArg = <<>>

NextSeries ==
    \/ CallAnalyzeTrend
    \/ CallDetectAnomalies
    \/ CallCalculateStatisticsOfArray

SpecSeries == InitSeries /\ [][NextSeries]_vars

\* calculateCorrelationMatrix alone
InitCorrelation == InitAnalysis /\ values = <<>> /\ thresholdArg = DUndefined

SpecCorrelation == InitCorrelation /\ [][CallCalculateCorrelationMatrix]_vars

----------------------------------------------------------------------------
(* The forecast, statistics and analysis calls as one machine: a series    *)
(* for a solar asset, a wind asset or no asset is drawn, or an array, and  *)
(* one call of any of the three machines runs on it                        *)

\* two samples that differ in every variable a call reads
CallSamples ==
    {[Hour(0, N(25), N(800), N(50), N(9)) EXCEPT !.surfacePressure = N(1000),
                                                 !.relativeHumidity = N(50)],
     Hour(0, Undef, N(0), Undef, N(4))}

CallAssets ==
    {NoAsset,
     [type |-> "solar", dcCapacity |-> N(7), systemLosses |-> Undef],
     [type |-> "wind", ratedCapacity |-> Q(3, 2), hubHeight |-> N(100),
      cutInSpeed |-> Undef, ratedSpeed |-> Undef, cutOutSpeed |-> Undef]}

InitCalls ==
    \/ /\ asset \in CallAssets
       /\ referenceHeight = N(DefaultReferenceHeight)
       /\ weatherData \in SeriesOf(CallSamples)
       /\ call = "none"
       /\ arg = Undef
       /\ values = <<>>
       /\ dataArg = <<>>
       /\ timestampsArg = <<>>
       /\ thresholdArg = DUndefined
       /\ result = NoResult
       /\ ClientIdle
    \/ /\ InitAnalysis
       /\ Len(values) <= MaxPoints
       /\ Len(dataArg) <= 2

NextCalls ==
    \/ NextForecast
    \/ NextResearch
    \/ NextAnalysis

SpecCalls == InitCalls /\ [][NextCalls]_vars

----------------------------------------------------------------------------
(* The long-term route as a state machine: an asset and the historical     *)
(* records the fetch returns are drawn, the handler runs                   *)

\* <<solarIrradiance, windSpeed>> of a historical record: a windy day, a
\* storm above every cut-out speed of the model, a record without readings
HistoricalReadings == {<<N(800), N(9)>>, <<N(200), N(26)>>, <<Undef, Undef>>}
HistoricalMonths == {1, Months}

HistoricalSamples ==
    {Hour(month, N(20), gv[1], Undef, gv[2]) : month \in HistoricalMonths,
                                               gv \in HistoricalReadings}

\* every series of at most MaxHours records, each stamped with its month
HistoricalSeries == UNION {[1 .. n -> HistoricalSamples] : n \in 0 .. MaxHours}

InitLongTerm ==
    /\ asset \in SolarAssets \cup WindAssets
    /\ referenceHeight = N(DefaultReferenceHeight)
    /\ weatherData \in HistoricalSeries
    /\ call = "none"
    /\ arg = Undef
    /\ values = <<>>
    /\ dataArg = <<>>
    /\ timestampsArg = <<>>
    /\ thresholdArg = DUndefined
    /\ result = NoResult
    /\ ClientIdle

CallPostLongTerm ==
    /\ call = "none"
    /\ \E locationOk \in BOOLEAN, assetOk \in BOOLEAN, fetchOk \in BOOLEAN :
          result' = ReturnedLongTerm(PostLongTerm(locationOk, assetOk, fetchOk, asset,
                                                 weatherData))
    /\ call' = "POST /api/long-term"
    /\ UNCHANGED <<asset, referenceHeight, weatherData, arg, values,
                 dataArg, timestampsArg, thresholdArg>>
    /\ UNCHANGED clientVars

NextLongTerm == CallPostLongTerm

SpecLongTerm == InitLongTerm /\ [][NextLongTerm]_vars

----------------------------------------------------------------------------
(* The location history as a state machine: the storage functions run one  *)
(* after another on one browser's localStorage                             *)

MaxHistoryCalls == 3

SolarSeven == [type |-> "solar", dcCapacity |-> N(7), systemLosses |-> Undef]
WindTurbine ==
    [type |-> "wind", ratedCapacity |-> Q(3, 2), hubHeight |-> N(100),
     cutInSpeed |-> Undef, ratedSpeed |-> Undef, cutOutSpeed |-> Undef]

Home == [address |-> "Austin, TX", latitude |-> Q(3026721, 100000),
         longitude |-> Q(-9774311, 100000)]
\* three metres north of Home: the same four decimals
NearHome == [Home EXCEPT !.latitude = Q(3026724, 100000)]
Boulder == [latitude |-> N(40), longitude |-> N(-105)]

\* <<location, asset>> of the saves: two that share an id and one more
SavedPlaces == {<<Home, SolarSeven>>, <<NearHome, SolarSeven>>, <<Home, WindTurbine>>}

\* the nickname argument: left out, or a string (held in a tuple)
Nicknames == {Undef, <<"home">>}

\* the locations of an earlier session: one per degree of latitude
EarlierPlace(i) == [latitude |-> N(i), longitude |-> N(-100)]
EarlierCount == HistoryLimit - 1
EarlierId(i) == GenerateLocationId(EarlierPlace(i), SolarSeven)

\* the history that session left: EarlierCount entries, the last saved first
EarlierHistory ==
    [i \in 1 .. EarlierCount |->
        SavedLocation(EarlierPlace(EarlierCount + 1 - i), SolarSeven, Undef, -i)] \o <<>>

SavedIds == {GenerateLocationId(place[1], place[2]) : place \in SavedPlaces}
EarlierIds == {EarlierId(i) : i \in 1 .. EarlierCount}
\* an id no save of the model produces
UnknownId == GenerateLocationId(Boulder, SolarSeven)

\* the ids given to toggleFavorite, updateLocationNickname and deleteLocation
ArgumentIds == SavedIds \cup {UnknownId, EarlierId(EarlierCount)}

\* savedAt of an id that was never saved, or deleted or cleared since: below
\* the number of every save, those of the earlier session included
NotStored == -HistoryLimit - 1

IdsOf(history) == {history[i].id : i \in DOMAIN history}

InitHistory ==
    /\ asset = NoAsset
    /\ referenceHeight = N(DefaultReferenceHeight)
    /\ weatherData = <<>>
    /\ call = "none"
    /\ arg = Undef
    /\ values = <<>>
    /\ dataArg = <<>>
    /\ timestampsArg = <<>>
    /\ thresholdArg = DUndefined
    /\ result = NoResult
    /\ BatchIdle
    /\ MapIdle
    /\ clock = 0
    /\ historyCall = NoHistoryCall
    /\ saves = 0
    /\ \/ /\ storage = NoItem
          /\ savedAt = [id \in SavedIds \cup EarlierIds \cup {UnknownId} |-> NotStored]
       \/ /\ storage = Item(EarlierHistory)
          /\ savedAt = [id \in SavedIds \cup EarlierIds \cup {UnknownId} |->
                           IF id \in EarlierIds
                           THEN (CHOOSE i \in 1 .. EarlierCount : EarlierId(i) = id)
                                    - HistoryLimit
                           ELSE NotStored]

HistoryCalled(name, id, nickname) ==
    [name |-> name, id |-> id, nickname |-> nickname,
     number |-> historyCall.number + 1,
     found |-> id \in IdsOf(GetLocationHistory(storage)),
     wasFavorite |-> \E i \in DOMAIN GetLocationHistory(storage) :
                        /\ GetLocationHistory(storage)[i].id = id
                        /\ GetLocationHistory(storage)[i].isFavorite]

CallSaveLocationToHistory ==
    /\ historyCall.number < MaxHistoryCalls
    /\ \E place \in SavedPlaces, nickname \in Nicknames, now \in {clock, clock + 1} :
          /\ storage' = SaveLocationToHistory(storage, place[1], place[2], nickname, now)
          /\ clock' = now
          /\ historyCall' = HistoryCalled("saveLocationToHistory",
                                          GenerateLocationId(place[1], place[2]), nickname)
          /\ savedAt' = [savedAt EXCEPT ![GenerateLocationId(place[1], place[2])] = saves + 1]
    /\ saves' = saves + 1
    /\ UNCHANGED <<callVars, batchVars, mapVars>>

CallToggleFavorite ==
    /\ historyCall.number < MaxHistoryCalls
    /\ \E id \in ArgumentIds :
          /\ storage' = ToggleFavorite(storage, id)
          /\ historyCall' = HistoryCalled("toggleFavorite", id, Undef)
    /\ UNCHANGED <<clock, savedAt, saves>>
    /\ UNCHANGED <<callVars, batchVars, mapVars>>

CallUpdateLocationNickname ==
    /\ historyCall.number < MaxHistoryCalls
    /\ \E id \in ArgumentIds :
          /\ storage' = UpdateLocationNickname(storage, id, <<"cabin">>)
          /\ historyCall' = HistoryCalled("updateLocationNickname", id, <<"cabin">>)
    /\ UNCHANGED <<clock, savedAt, saves>>
    /\ UNCHANGED <<callVars, batchVars, mapVars>>

CallDeleteLocation ==
    /\ historyCall.number < MaxHistoryCalls
    /\ \E id \in ArgumentIds :
          /\ storage' = DeleteLocation(storage, id)
          /\ historyCall' = HistoryCalled("deleteLocation", id, Undef)
          /\ savedAt' = [savedAt EXCEPT ![id] = NotStored]
    /\ UNCHANGED <<clock, saves>>
    /\ UNCHANGED <<callVars, batchVars, mapVars>>

CallClearLocationHistory ==
    /\ historyCall.number < MaxHistoryCalls
    /\ storage' = NoItem
    /\ historyCall' = HistoryCalled("clearLocationHistory", Undef, Undef)
    /\ savedAt' = [id \in DOMAIN savedAt |-> NotStored]
    /\ UNCHANGED <<clock, saves>>
    /\ UNCHANGED <<callVars, batchVars, mapVars>>

NextHistory ==
    \/ CallSaveLocationToHistory
    \/ CallToggleFavorite
    \/ CallUpdateLocationNickname
    \/ CallDeleteLocation
    \/ CallClearLocationHistory

SpecHistory == InitHistory /\ [][NextHistory]_vars

----------------------------------------------------------------------------
(* BatchAnalysis: a CSV is loaded and the batch is run                     *)

MaxLocations == 3

\* row i of the CSV (id `loc_${i}` is the number i)
BatchLocation(i) ==
    [id |-> i, name |-> <<CASE i = 1 -> "Austin" [] i = 2 -> "Boise"
                            [] i = 3 -> "Casper" [] OTHER -> "Denver">>]

\* the lists parseCSV hands to setLocations: the first rows of one file
CsvLists == {[i \in 1 .. n |-> BatchLocation(i)] : n \in 0 .. MaxLocations}

\* the outputs of successful /api/forecast responses
SunnyOutputs ==
    <<[power |-> N(4), capacity |-> Q(1, 2)], [power |-> N(2), capacity |-> Q(1, 4)]>>
DimOutputs == <<[power |-> N(1), capacity |-> Q(1, 8)]>>
NightOutputs == <<[power |-> N(0), capacity |-> N(0)]>>

\* how the request of one location can end: a body with success, a body
\* without it (with or without an error message), a rejected fetch
ForecastResponses ==
    {[kind |-> "json", success |-> TRUE, outputs |-> o, message |-> Undef] :
        o \in {SunnyOutputs, DimOutputs, NightOutputs}}
    \cup {[kind |-> "json", success |-> FALSE, outputs |-> <<>>, message |-> m] :
             m \in {Undef, <<"Weather data unavailable">>}}
    \cup {[kind |-> "rejected", success |-> FALSE, outputs |-> <<>>,
           message |-> <<"Failed to fetch">>]}

InitBatch ==
    /\ asset = NoAsset
    /\ referenceHeight = N(DefaultReferenceHeight)
    /\ weatherData = <<>>
    /\ call = "none"
    /\ arg = Undef
    /\ values = <<>>
    /\ dataArg = <<>>
    /\ timestampsArg = <<>>
    /\ thresholdArg = DUndefined
    /\ result = NoResult
    /\ HistoryIdle
    /\ BatchIdle
    /\ MapIdle

\* handleFileUpload: the file input stays usable while a batch runs
HandleFileUpload ==
    /\ \E parsedLocations \in CsvLists : locations' = parsedLocations
    /\ UNCHANGED <<isProcessing, progress, results, batchResults, awaiting>>
    /\ UNCHANGED <<callVars, historyVars, mapVars>>

\* processBatch up to its first await; its button is rendered only when
\* locations.length > 0 && !isProcessing && results.length === 0
ProcessBatch ==
    /\ Len(locations) > 0
    /\ ~isProcessing
    /\ Len(results) = 0
    /\ isProcessing' = TRUE
    /\ results' = <<>>
    /\ progress' = ProgressAt(StartedProgress(locations), locations[1])
    /\ batchResults' = <<>>
    /\ awaiting' = [on |-> "fetch", i |-> 1, locations |-> locations]
    /\ UNCHANGED locations
    /\ UNCHANGED <<callVars, historyVars, mapVars>>

\* the request of locations[i] settles: the rest of the loop body up to the
\* delay
ForecastSettles ==
    /\ awaiting.on = "fetch"
    /\ \E response \in ForecastResponses :
          /\ batchResults' =
                Append(batchResults, ResultOf(awaiting.locations[awaiting.i], response))
          /\ progress' = ProgressAfter(progress, response)
    /\ awaiting' = [awaiting EXCEPT !.on = "delay"]
    /\ UNCHANGED <<locations, isProcessing, results>>
    /\ UNCHANGED <<callVars, historyVars, mapVars>>

\* the delay ends and the loop goes on to the next location
NextLocation ==
    /\ awaiting.on = "delay"
    /\ awaiting.i < Len(awaiting.locations)
    /\ progress' = ProgressAt(progress, awaiting.locations[awaiting.i + 1])
    /\ awaiting' = [awaiting EXCEPT !.on = "fetch", !.i = awaiting.i + 1]
    /\ UNCHANGED <<locations, isProcessing, results, batchResults>>
    /\ UNCHANGED <<callVars, historyVars, mapVars>>

\* the delay after the last location ends: the results are ranked and shown
FinishBatch ==
    /\ awaiting.on = "delay"
    /\ awaiting.i >= Len(awaiting.locations)
    /\ batchResults' = RankResults(batchResults)
    /\ results' = RankResults(batchResults)
    /\ isProcessing' = FALSE
    /\ awaiting' = [awaiting EXCEPT !.on = "returned"]
    /\ UNCHANGED <<locations, progress>>
    /\ UNCHANGED <<callVars, historyVars, mapVars>>

NextBatch ==
    \/ HandleFileUpload
    \/ ProcessBatch
    \/ ForecastSettles
    \/ NextLocation
    \/ FinishBatch

SpecBatch == InitBatch /\ [][NextBatch]_vars

----------------------------------------------------------------------------
(* GET /api/national-map: one request, its weather requests settling in    *)
(* any order                                                               *)

\* the handler's grid is cut to its first MaxGridPoints points
MaxGridPoints == 6

SamplePointsLength ==
    IF MaxGridPoints < GridRows * GridColumns THEN MaxGridPoints
    ELSE GridRows * GridColumns

GridIndices == 1 .. SamplePointsLength

\* the type parameter: "" stands for a missing one
MapTypes == {"solar", "wind", "hydro", ""}

\* the hour parameter, as its characters (none: missing)
HourTexts == {<<>>, <<"1">>, <<"2", "4">>, <<"-", "1">>, <<"x">>}

\* the hourly records Open-Meteo returns, as far as the route reads them
MapSample(h) ==
    IF h = 0 THEN [solarIrradiance |-> N(0), windSpeed |-> N(5)]
    ELSE [solarIrradiance |-> N(300), windSpeed |-> Undef]

\* how fetchOpenMeteoForecast can end for one point
NoReply == [kind |-> "none", weatherData |-> <<>>]

WeatherReplies ==
    {[kind |-> "rejected", weatherData |-> <<>>]}
    \cup {[kind |-> "resolved", weatherData |-> [h \in 1 .. n |-> MapSample(h - 1)]] :
             n \in 1 .. 2}

InitMap ==
    /\ asset = NoAsset
    /\ referenceHeight = N(DefaultReferenceHeight)
    /\ weatherData = <<>>
    /\ call = "none"
    /\ arg = Undef
    /\ values = <<>>
    /\ dataArg = <<>>
    /\ timestampsArg = <<>>
    /\ thresholdArg = DUndefined
    /\ result = NoResult
    /\ HistoryIdle
    /\ BatchIdle
    /\ MapIdle

\* the requests of the batch that starts at grid index i go out together
StartBatch(i) ==
    /\ batchStart' = i
    /\ inFlight' = BatchSlice(i, SamplePointsLength)
    /\ batchPromises' =
          [slot \in 1 .. Cardinality(BatchSlice(i, SamplePointsLength)) |-> PendingPoint]
    /\ mapStep' = "batch"

\* GET up to its first await: the validation, then the first batch
GetNationalMap ==
    /\ mapStep = "idle"
    /\ \E type \in MapTypes, text \in HourTexts :
          /\ mapRequest' = [type |-> type, hour |-> HourOf(text)]
          /\ IF TypeRejected(type) \/ HourRejected(HourOf(text))
             THEN /\ mapResponse' = MapError(400, "INVALID_INPUT")
                  /\ mapStep' = "answered"
                  /\ UNCHANGED <<batchStart, inFlight, weatherReplies, batchPromises>>
             ELSE /\ StartBatch(0)
                  /\ weatherReplies' = [k \in GridIndices |-> NoReply]
                  /\ UNCHANGED mapResponse
    /\ UNCHANGED validPoints
    /\ UNCHANGED <<callVars, historyVars, batchVars>>

\* one weather request of the batch ends and its callback resolves
WeatherSettles ==
    /\ mapStep = "batch"
    /\ \E k \in inFlight, reply \in WeatherReplies :
          /\ weatherReplies' = [weatherReplies EXCEPT ![k] = reply]
          /\ batchPromises' =
                [batchPromises EXCEPT ![k - batchStart] =
                    PointPromise(SamplePoint(k - 1), reply, mapRequest.type,
                                 mapRequest.hour)]
          /\ inFlight' = inFlight \ {k}
    /\ UNCHANGED <<mapRequest, mapStep, batchStart, validPoints, mapResponse>>
    /\ UNCHANGED <<callVars, historyVars, batchVars>>

\* Promise.all of a batch that is not the last: its points are kept and the
\* delay begins
BatchSettled ==
    /\ mapStep = "batch"
    /\ inFlight = {}
    /\ batchStart + BatchSize < SamplePointsLength
    /\ validPoints' = validPoints \o ValidBatchPoints(batchPromises)
    /\ mapStep' = "delay"
    /\ UNCHANGED <<mapRequest, batchStart, inFlight, weatherReplies, batchPromises,
                   mapResponse>>
    /\ UNCHANGED <<callVars, historyVars, batchVars>>

\* the delay between two batches ends: the next batch starts
DelayBetweenBatchesElapsed ==
    /\ mapStep = "delay"
    /\ StartBatch(batchStart + BatchSize)
    /\ UNCHANGED <<mapRequest, weatherReplies, validPoints, mapResponse>>
    /\ UNCHANGED <<callVars, historyVars, batchVars>>

\* Promise.all of the last batch: its points are kept and the route answers
LastBatchSettled ==
    /\ mapStep = "batch"
    /\ inFlight = {}
    /\ batchStart + BatchSize >= SamplePointsLength
    /\ validPoints' = validPoints \o ValidBatchPoints(batchPromises)
    /\ mapResponse' =
          MapAnswer(mapRequest.type, validPoints \o ValidBatchPoints(batchPromises))
    /\ mapStep' = "answered"
    /\ UNCHANGED <<mapRequest, batchStart, inFlight, weatherReplies, batchPromises>>
    /\ UNCHANGED <<callVars, historyVars, batchVars>>

NextMap ==
    \/ GetNationalMap
    \/ WeatherSettles
    \/ BatchSettled
    \/ DelayBetweenBatchesElapsed
    \/ LastBatchSettled

SpecMap == InitMap /\ [][NextMap]_vars

----------------------------------------------------------------------------
(* Properties of the forecast calls                                        *)

IsForecastCall == call \in {"generateSolarForecast", "generateWindForecast"}

\* the capacity the percentage is taken of: dcCapacity or ratedCapacity
CapacityOf(a) == IF a.type = "solar" THEN a.dcCapacity ELSE a.ratedCapacity

Clamp0To100(x) == MathMin(N(100), MathMax(N(0), x))

CutIn(a) == OrDefault(a.cutInSpeed, N(DefaultCutInSpeed))
Rated(a) == OrDefault(a.ratedSpeed, N(DefaultRatedSpeed))
CutOut(a) == OrDefault(a.cutOutSpeed, N(DefaultCutOutSpeed))

ValidWindCurve(a) ==
    /\ Lt(CutIn(a), Rated(a))
    /\ Le(Rated(a), CutOut(a))
    /\ Gt(a.ratedCapacity, N(0))

\* C1: calculateWindPower(v, asset) with cutIn < rated <= cutOut and
\* ratedCapacity > 0 returns 0 below cut-in, 0 above cut-out and exactly
\* ratedCapacity for rated <= v <= cutOut.
C1_WindPowerRegions ==
    (call = "calculateWindPower" /\ ValidWindCurve(asset)) =>
        /\ result.status = "returned"
        /\ Lt(arg, CutIn(asset)) => result.number = N(0)
        /\ Gt(arg, CutOut(asset)) => result.number = N(0)
        /\ (Ge(arg, Rated(asset)) /\ Le(arg, CutOut(asset)))
              => result.number = asset.ratedCapacity

\* calculateWindPower ran at exactly the cut-out speed and returned the rating
C1_Witness ==
    /\ call = "calculateWindPower"
    /\ ValidWindCurve(asset)
    /\ arg = CutOut(asset)
    /\ result.number = asset.ratedCapacity

\* C2: every sample of a returned forecast has power >= 0 and a capacity in
\* [0,100] that equals (returned power / capacity of the asset) * 100
\* clamped to [0,100] (the quotient being defined: capacity of the asset # 0).
C2_PowerAndCapacityRange ==
    (IsForecastCall /\ result.status = "returned") =>
        \A i \in Indices(result.outputs) :
            LET out == result.outputs[i]
            IN  /\ Ge(out.power, N(0))
                /\ Ge(out.capacity, N(0))
                /\ Le(out.capacity, N(100))
                /\ CapacityOf(asset) # N(0) =>
                      out.capacity =
                          Clamp0To100(Mul(Div(out.power, CapacityOf(asset)), N(100)))

\* a wind sample whose density-corrected power exceeds the rating: capacity 100
C2_Witness ==
    /\ call = "generateWindForecast"
    /\ result.status = "returned"
    /\ \E i \in Indices(result.outputs) :
          /\ Gt(result.outputs[i].power, asset.ratedCapacity)
          /\ Gt(asset.ratedCapacity, N(0))
          /\ result.outputs[i].capacity = N(100)

\* C3: a returned forecast has the length of the input series and sample i
\* carries the timestamp of input sample i.
C3_AlignedWithInput ==
    (IsForecastCall /\ result.status = "returned") =>
        /\ Len(result.outputs) = Len(weatherData)
        /\ \A i \in Indices(weatherData) : result.outputs[i].time = weatherData[i].time

\* a solar series whose first hour has no irradiance and whose second has, forecast
C3_Witness ==
    /\ call = "generateSolarForecast"
    /\ Gt(asset.dcCapacity, N(0))
    /\ Len(weatherData) >= 2
    /\ ~IsDefined(weatherData[1].solarIrradiance)
    /\ IsDefined(weatherData[2].solarIrradiance)
    /\ Len(result.outputs) = Len(weatherData)
    /\ result.outputs[2].time = weatherData[2].time

\* C4: irradiance <= 0 or missing gives power 0: calculateSolarPower returns 0
\* for irradiance <= 0 (dcCapacity > 0, losses in [0,100]); generateSolarForecast
\* gives power 0 and capacity 0 for such a sample whatever its cloud cover and
\* temperature; and no returned power is negative, whatever the sign of the
\* intermediate product.
C4_NoIrradianceNoPower ==
    /\ (/\ call = "calculateSolarPower"
        /\ Gt(asset.dcCapacity, N(0))
        /\ Le(N(0), OrDefault(asset.systemLosses, N(DefaultSystemLosses)))
        /\ Le(OrDefault(asset.systemLosses, N(DefaultSystemLosses)), N(100))
        /\ Le(arg, N(0))) => result.number = N(0)
    /\ call = "generateSolarForecast" =>
          \A i \in Indices(weatherData) :
              /\ Ge(result.outputs[i].power, N(0))
              /\ (~IsDefined(weatherData[i].solarIrradiance)
                    \/ Le(weatherData[i].solarIrradiance, N(0)))
                  => (result.outputs[i].power = N(0) /\ result.outputs[i].capacity = N(0))

\* one hour with irradiance 0 and one whose temperature derate is negative
C4_Witness ==
    /\ call = "generateSolarForecast"
    /\ Gt(asset.dcCapacity, N(0))
    /\ \E i, j \in Indices(weatherData) :
          /\ weatherData[i].solarIrradiance = N(0)
          /\ IsDefined(weatherData[i].cloudCover)
          /\ result.outputs[i].power = N(0)
          /\ Lt(SolarRawPower(asset, weatherData[j]), N(0))
          /\ result.outputs[j].power = N(0)

SameConditions(h1, h2) ==
    h1.cloudCover = h2.cloudCover /\ h1.temperature = h2.temperature

\* the irradiance the power is computed from (lines 119-125)
AdjustedIrradiance(hour) ==
    IF IsDefined(hour.cloudCover)
    THEN AdjustIrradianceForClouds(hour.solarIrradiance, hour.cloudCover)
    ELSE hour.solarIrradiance

\* where base * tempFactor stops growing with the adjusted irradiance G:
\* G * (1 + c*(T + (NOCT-20)*G/800 - T_STC)) peaks at
\* G = 800 * (1 + c*(T - T_STC)) / (2 * (NOCT-20) * (-c)), c = TempCoefficient,
\* which is 4000 * (1.1 - 0.004 * T)
DeratePeak(T) ==
    Div(Mul(N(800), Add(N(1), Mul(TempCoefficient, Sub(T, N(T_STC))))),
        Mul(N(2 * (NOCT - 20)), Neg(TempCoefficient)))

\* C5 as stated: for a fixed asset, cloud cover and temperature, any two
\* irradiance values G1 <= G2 give power(G1) <= power(G2).
C5_MonotoneInIrradiance ==
    call = "generateSolarForecast" =>
        \A i, j \in Indices(weatherData) :
            (/\ IsDefined(weatherData[i].solarIrradiance)
             /\ IsDefined(weatherData[j].solarIrradiance)
             /\ SameConditions(weatherData[i], weatherData[j])
             /\ Le(weatherData[i].solarIrradiance, weatherData[j].solarIrradiance))
            => Le(result.outputs[i].power, result.outputs[j].power)

\* C5 amended: the same, for pairs whose temperature is absent or whose larger
\* cloud-adjusted irradiance is at most 4000 * (1.1 - 0.004 * T) W/m2, the
\* point beyond which the temperature derate makes the power fall.
C5_MonotoneBelowDeratePeak ==
    call = "generateSolarForecast" =>
        \A i, j \in Indices(weatherData) :
            (/\ IsDefined(weatherData[i].solarIrradiance)
             /\ IsDefined(weatherData[j].solarIrradiance)
             /\ SameConditions(weatherData[i], weatherData[j])
             /\ Le(weatherData[i].solarIrradiance, weatherData[j].solarIrradiance)
             /\ \/ ~IsDefined(weatherData[j].temperature)
                \/ Le(AdjustedIrradiance(weatherData[j]),
                      DeratePeak(weatherData[j].temperature)))
            => Le(result.outputs[i].power, result.outputs[j].power)

\* two hours under the same cloud cover and temperature, the second with more
\* irradiance (below the peak) and strictly more power
C5_Witness ==
    /\ call = "generateSolarForecast"
    /\ \E i, j \in Indices(weatherData) :
          /\ IsDefined(weatherData[i].temperature)
          /\ IsDefined(weatherData[i].cloudCover)
          /\ SameConditions(weatherData[i], weatherData[j])
          /\ IsDefined(weatherData[i].solarIrradiance)
          /\ IsDefined(weatherData[j].solarIrradiance)
          /\ Lt(N(0), weatherData[i].solarIrradiance)
          /\ Lt(weatherData[i].solarIrradiance, weatherData[j].solarIrradiance)
          /\ Le(AdjustedIrradiance(weatherData[j]), DeratePeak(weatherData[j].temperature))
          /\ Lt(result.outputs[i].power, result.outputs[j].power)

\* C6: a wind forecast whose hub height or reference height is not > 0 is
\* rejected with an error, for every weather series. Stated on the calls in
\* which nothing else is wrong (positive rated capacity, at least one sample),
\* so that a violation is due to the heights alone.
C6_InvalidHeightRejected ==
    (/\ call = "generateWindForecast"
     /\ Gt(asset.ratedCapacity, N(0))
     /\ Len(weatherData) > 0
     /\ (Le(referenceHeight, N(0)) \/ Le(asset.hubHeight, N(0))))
    => result.status = "threw"

C8_EmptySeriesRejected ==
    (call = "POST /api/forecast" /\ Len(weatherData) = 0) =>
        /\ ~result.response.success
        /\ ~result.response.hasOutputs

\* the route answered NO_DATA for an empty series
C8_Witness ==
    /\ call = "POST /api/forecast"
    /\ Len(weatherData) = 0
    /\ result.response.error = "NO_DATA"
    /\ result.response.httpStatus = 404

----------------------------------------------------------------------------
(* Properties of the statistics calls                                      *)

IsAllZero(st) ==
    /\ st.mean = DZero /\ st.median = DZero /\ st.stdDev = DZero
    /\ st.min = DZero /\ st.max = DZero
    /\ st.percentile25 = DZero /\ st.percentile75 = DZero /\ st.percentile95 = DZero
    /\ st.count = 0

C10_QualityScoreInRange ==
    call = "generateDataQualityReport" =>
        /\ result.status = "returned"
        /\ IsFinite(result.report.qualityScore)
        /\ Ge(result.report.qualityScore, N(0))
        /\ Le(result.report.qualityScore, N(100))

----------------------------------------------------------------------------
(* Properties of the analysis calls                                        *)

DLe(a, b) == ~DIsNaN(a) /\ ~DIsNaN(b) /\ ~DLt(b, a)
DGe(a, b) == DLe(b, a)

IsSquare(m, n) == Len(m) = n /\ \A i \in 1 .. n : Len(m[i]) = n

\* C11: for any variable map, the r-matrix and the p-value matrix of
\* calculateCorrelationMatrix are square and symmetric, every diagonal entry
\* is exactly 1 with p = 0, and every entry r satisfies -1 <= r <= 1.
C11_MatrixSymmetricAndBounded ==
    call = "calculateCorrelationMatrix" =>
        LET c == result.correlation
            n == Len(dataArg)
        IN  /\ Len(c.variables) = n
            /\ IsSquare(c.matrix, n)
            /\ IsSquare(c.pValues, n)
            /\ \A i, j \in 1 .. n :
                  /\ c.matrix[i][j] = c.matrix[j][i]
                  /\ c.pValues[i][j] = c.pValues[j][i]
                  /\ DLe(FromInt(-1), c.matrix[i][j])
                  /\ DLe(c.matrix[i][j], DOne)
            /\ \A i \in 1 .. n : c.matrix[i][i] = DOne /\ c.pValues[i][i] = DZero

\* the indices of vals that hold a number other than NaN
ValidIndices(vals) == {i \in DOMAIN vals : vals[i].cls \in {"zero", "fin", "inf"}}

\* C12: calculateStatistics returns count + missingCount = values.length with
\* count the number of entries that are neither null, undefined nor NaN; with
\* no such entry every statistic is 0, count is 0 and missingCount is the
\* array's length.
C12_CountsPartitionInput ==
    (call = "calculateStatistics" /\ dataArg = <<>>) =>
        LET st == result.statistics
        IN  /\ result.status = "returned"
            /\ st.count = Cardinality(ValidIndices(values))
            /\ st.count + st.missingCount = Len(values)
            /\ ValidIndices(values) = {} =>
                   IsAllZero(st) /\ st.missingCount = Len(values)

\* an array of null, undefined and NaN only has been summarised: nothing is
\* counted and all four entries are missing
C12_Witness ==
    /\ call = "calculateStatistics"
    /\ Len(values) = 4
    /\ ValidIndices(values) = {}
    /\ \E i, j \in DOMAIN values : values[i].cls = "null" /\ values[j].cls = "undefined"
    /\ result.statistics.missingCount = 4

\* C13: analyzeTrend labels a trend "stable" unless its p-value is below
\* 0.05; below 0.05 the label is "increasing" for a positive slope and
\* "decreasing" for a negative one, so every result whose trend is not
\* "stable" carries a returned pValue < 0.05 and a returned slope of the
\* label's sign.
C13_TrendNeedsSignificance ==
    call = "analyzeTrend" =>
        LET t == result.trend
            significant == DLt(t.pValue, SignificanceLevel)
        IN  /\ result.status = "returned"
            /\ t.trend \in {"stable", "increasing", "decreasing"}
            /\ t.trend = "stable" <=> ~significant
            /\ t.trend = "increasing" => significant /\ DGt(t.slope, DZero)
            /\ t.trend = "decreasing" => significant /\ DLt(t.slope, DZero)

\* a falling run of five values that is not quite straight has been analysed:
\* its p-value lies strictly between 0 and 0.05 and it is labelled decreasing
C13_Witness ==
    /\ call = "analyzeTrend"
    /\ Len(values) = 5
    /\ result.trend.trend = "decreasing"
    /\ DLt(result.trend.slope, DZero)
    /\ DGt(result.trend.pValue, DZero)
    /\ DLt(result.trend.pValue, SignificanceLevel)

\* the threshold a call of detectAnomalies compares with
LimitOf(threshold) ==
    IF threshold.cls = "undefined" THEN FromInt(DefaultThreshold) ELSE threshold

\* |v - mean| / stdDev for the statistics st of a series
ZScore(v, st) == DDiv(DAbs(DSub(v, st.mean)), st.stdDev)

SeverityRank(sev) ==
    CASE sev = "low" -> 0 [] sev = "medium" -> 1 [] sev = "high" -> 2
      [] sev = "extreme" -> 3

\* C14: detectAnomalies reports exactly the valid observations whose
\* |value - mean| / stdDev exceeds the threshold (3 when none is given), in
\* input order; severity is extreme above 5, high above 4, medium above 3.5
\* and low otherwise, hence non-decreasing in the deviation; each record keeps
\* the observation's timestamp and value and the series mean as expectedValue.
C14_AnomaliesAreTheExceedingValues ==
    call = "detectAnomalies" =>
        LET a == result.anomalies
            at(k) == a[k].timestamp
            st == CalculateStatistics(values)
            exceeding == {i \in ValidIndices(values) :
                            DGt(ZScore(values[i], st), LimitOf(thresholdArg))}
        IN  /\ result.status = "returned"
            /\ {at(k) : k \in DOMAIN a} = exceeding
            /\ \A k1, k2 \in DOMAIN a : k1 < k2 => at(k1) < at(k2)
            /\ \A k \in DOMAIN a :
                  /\ a[k].timestamp = timestampsArg[at(k)]
                  /\ a[k].value = values[at(k)]
                  /\ a[k].expectedValue = st.mean
                  /\ a[k].deviation = ZScore(values[at(k)], st)
                  /\ a[k].severity =
                        (IF DGt(a[k].deviation, FromInt(5)) THEN "extreme"
                         ELSE IF DGt(a[k].deviation, FromInt(4)) THEN "high"
                         ELSE IF DGt(a[k].deviation, Lit(7, 2)) THEN "medium"
                         ELSE "low")
            /\ \A k1, k2 \in DOMAIN a :
                  DLe(a[k1].deviation, a[k2].deviation) =>
                      SeverityRank(a[k1].severity) <= SeverityRank(a[k2].severity)

\* a call with threshold 0 has reported values of two severities, low and
\* extreme, the extreme one lying further off the mean
C14_Witness ==
    /\ call = "detectAnomalies"
    /\ thresholdArg = DZero
    /\ \E k1, k2 \in DOMAIN result.anomalies :
          /\ result.anomalies[k1].severity = "low"
          /\ result.anomalies[k2].severity = "extreme"
          /\ DLt(result.anomalies[k1].deviation, result.anomalies[k2].deviation)

\* the valid entries of the analysed array that lie exactly five standard
\* deviations off the mean, as detectAnomalies computes the deviation
ExactlyFiveOff ==
    LET st == CalculateStatistics(values)
    IN  {i \in ValidIndices(values) : ZScore(values[i], st) = FromInt(5)}

\* the record reported for entry i of the analysed array has severity sev
ReportedAs(i, sev) ==
    \E k \in DOMAIN result.anomalies :
        result.anomalies[k].timestamp = timestampsArg[i] /\ result.anomalies[k].severity = sev

\* C15 as stated: an observation that deviates exactly 5 standard deviations
\* from the mean is reported with severity "extreme".
C15_ExactlyFiveIsExtreme ==
    (call = "detectAnomalies" /\ DLt(LimitOf(thresholdArg), FromInt(5))) =>
        \A i \in ExactlyFiveOff : ReportedAs(i, "extreme")

\* C15, amended: an observation that deviates exactly 5 standard deviations
\* from the mean is reported (for a threshold below 5) with severity "high";
\* "extreme" is given only to deviations strictly above 5.
C15_ExactlyFiveIsHigh ==
    (call = "detectAnomalies" /\ DLt(LimitOf(thresholdArg), FromInt(5))) =>
        /\ \A i \in ExactlyFiveOff : ReportedAs(i, "high") /\ ~ReportedAs(i, "extreme")
        /\ \A k \in DOMAIN result.anomalies :
              result.anomalies[k].severity = "extreme" =>
                  DGt(result.anomalies[k].deviation, FromInt(5))

\* 25 readings of 0 and one of 26 (mean 1, standard deviation 5) have been
\* analysed with the default threshold: the last reading lies exactly 5
\* deviations off and is the one record reported
C15_Witness ==
    /\ call = "detectAnomalies"
    /\ thresholdArg = DUndefined
    /\ Len(values) = 26
    /\ ExactlyFiveOff = {26}
    /\ Len(result.anomalies) = 1
    /\ result.anomalies[1].deviation = FromInt(5)
    /\ result.anomalies[1].expectedValue = DOne

\* a number: neither null, undefined nor NaN
IsNumeric(v) == v.cls \in {"zero", "fin", "inf"}

\* the indices at which x and y both hold a number
NumericPairs(x, y) ==
    {k \in DOMAIN x \cap DOMAIN y : IsNumeric(x[k]) /\ IsNumeric(y[k])}

ConstantOver(x, y) == Cardinality({x[k] : k \in NumericPairs(x, y)}) = 1

\* C17: a series of zero variance, over 3 pairs or more, gets r = 0 and the
\* finite p-value 1 from pearsonCorrelation, and no cell of the correlation
\* matrices is NaN or infinite.
C17_ZeroVarianceUncorrelated ==
    call = "calculateCorrelationMatrix" =>
        \A i, j \in DOMAIN dataArg :
            LET x == dataArg[i].series
                y == dataArg[j].series
            IN  /\ DIsFinite(result.correlation.matrix[i][j])
                /\ DIsFinite(result.correlation.pValues[i][j])
                /\ (/\ i # j
                    /\ Cardinality(NumericPairs(x, y)) >= 3
                    /\ ConstantOver(x, y) \/ ConstantOver(y, x)) =>
                       /\ result.correlation.matrix[i][j] = DZero
                       /\ result.correlation.pValues[i][j] = DOne

\* the map holds the same series under two keys
TwoIdenticalSeries == Len(dataArg) = 2 /\ dataArg[1].series = dataArg[2].series

\* the distinct numbers of a series
NumbersOf(x) == {x[k] : k \in ValidIndices(x)}

\* C18 as stated: for two identical series the correlation matrix holds
\* matrix[0][1] = matrix[1][0] = 1.0.
C18_IdenticalSeriesCorrelateFully ==
    (call = "calculateCorrelationMatrix" /\ TwoIdenticalSeries) =>
        /\ result.correlation.matrix[1][2] = DOne
        /\ result.correlation.matrix[2][1] = DOne

\* C18, amended: two identical series give matrix[0][1] = matrix[1][0] = 1.0
\* (with p = 0) when the series holds at least 3 numbers, all finite and not
\* all equal; with fewer than 3 numbers both cells are 0 with p = 1; for a
\* constant series they are either 0 with p = 1 or 1 with p = 0.
C18_IdenticalVaryingSeriesCorrelateFully ==
    (call = "calculateCorrelationMatrix" /\ TwoIdenticalSeries) =>
        LET x == dataArg[1].series
            c == result.correlation
            cells(r, pValue) ==
                /\ c.matrix[1][2] = r /\ c.matrix[2][1] = r
                /\ c.pValues[1][2] = pValue /\ c.pValues[2][1] = pValue
        IN  /\ Cardinality(ValidIndices(x)) < 3 => cells(DZero, DOne)
            /\ (/\ Cardinality(ValidIndices(x)) >= 3
                /\ Cardinality(NumbersOf(x)) > 1
                /\ \A v \in NumbersOf(x) : DIsFinite(v)) => cells(DOne, DZero)
            /\ (Cardinality(ValidIndices(x)) >= 3 /\ Cardinality(NumbersOf(x)) = 1) =>
                   cells(DZero, DOne) \/ cells(DOne, DZero)

\* a series of three numbers, one of them 0.1 and not all equal, has been
\* correlated with itself: both cells hold exactly 1 and p = 0
C18_Witness ==
    /\ call = "calculateCorrelationMatrix"
    /\ TwoIdenticalSeries
    /\ Cardinality(ValidIndices(dataArg[1].series)) = 3
    /\ Tenth \in NumbersOf(dataArg[1].series)
    /\ Cardinality(NumbersOf(dataArg[1].series)) > 1
    /\ result.correlation.matrix[1][2] = DOne
    /\ result.correlation.matrix[2][1] = DOne
    /\ result.correlation.pValues[1][2] = DZero

\* C19: detectAnomalies returns an empty list whenever the population
\* standard deviation is 0, that is when all valid values are equal or there
\* is a single one, for every threshold >= 0; and no reported anomaly has a
\* NaN or infinite deviation.
C19_NoAnomalyWithoutSpread ==
    call = "detectAnomalies" =>
        /\ Cardinality(NumbersOf(values)) <= 1 => result.anomalies = <<>>
        /\ \A k \in DOMAIN result.anomalies : DIsFinite(result.anomalies[k].deviation)

----------------------------------------------------------------------------
(* Properties of the quality report's completeness                         *)

\* the field is present as a number
Present(x) == x # Undef /\ x # NaN

\* the records whose temperature, surfacePressure and relativeHumidity are
\* all present as numbers
CriticalComplete(series) ==
    {i \in DOMAIN series :
        /\ Present(series[i].temperature)
        /\ Present(series[i].surfacePressure)
        /\ Present(series[i].relativeHumidity)}

\* the series with every variable but the three critical ones left out
CriticalOnly(series) ==
    [i \in DOMAIN series |->
        [series[i] EXCEPT !.solarIrradiance = Undef, !.cloudCover = Undef,
                          !.windSpeed = Undef, !.precipitation = Undef]]

\* C20: in generateDataQualityReport a sample counts toward completeRecords
\* exactly when temperature, surfacePressure and relativeHumidity are all
\* present as numbers; the other variables change neither completeRecords nor
\* missingDataPercentage = (totalRecords - completeRecords) / totalRecords * 100.
C20_CompletenessFromCriticalVariables ==
    call = "generateDataQualityReport" =>
        LET r == result.report
            bare == GenerateDataQualityReport(CriticalOnly(weatherData))
        IN  /\ r.totalRecords = Len(weatherData)
            /\ r.completeRecords = Cardinality(CriticalComplete(weatherData))
            /\ r.missingDataPercentage =
                  Mul(Div(N(r.totalRecords - r.completeRecords), N(r.totalRecords)), N(100))
            /\ r.completeRecords = bare.completeRecords
            /\ r.missingDataPercentage = bare.missingDataPercentage

\* a report on two samples, the first with a wind speed and no temperature,
\* the second with the three critical variables and no wind speed: one
\* complete record, 50 percent missing
C20_Witness ==
    /\ call = "generateDataQualityReport"
    /\ Len(weatherData) = 2
    /\ Present(weatherData[1].windSpeed) /\ ~Present(weatherData[1].temperature)
    /\ ~Present(weatherData[2].windSpeed) /\ CriticalComplete(weatherData) = {2}
    /\ result.report.completeRecords = 1
    /\ result.report.missingDataPercentage = N(50)

----------------------------------------------------------------------------
(* Properties of the quality report's list of suspicious values            *)

\* the range of each ranged variable, <<min, max>>
StatedRanges ==
    [temperature |-> <<-60, 60>>, surfacePressure |-> <<800, 1100>>,
     relativeHumidity |-> <<0, 100>>, windSpeed |-> <<0, 100>>,
     solarIrradiance |-> <<0, 1500>>, precipitation |-> <<0, 500>>]

\* <<i, k>>: the reading of variable k in record i is out of its range
OutOfRangeReadings(series) ==
    {p \in Indices(series) \X Indices(VariableKeys) :
        /\ VariableKeys[p[2]] \in DOMAIN StatedRanges
        /\ IsDefined(series[p[1]][VariableKeys[p[2]]])
        /\ \/ Lt(series[p[1]][VariableKeys[p[2]]], N(StatedRanges[VariableKeys[p[2]]][1]))
           \/ Gt(series[p[1]][VariableKeys[p[2]]], N(StatedRanges[VariableKeys[p[2]]][2]))}

\* the number of out-of-range readings before reading p in series order
ReadingsBefore(series, p) ==
    Cardinality({q \in OutOfRangeReadings(series) :
                    q[1] < p[1] \/ (q[1] = p[1] /\ q[2] < p[2])})

\* C21: for a non-empty series, suspiciousValues holds the first
\* min(50, outlierCount) out-of-range readings in series order, outlierCount
\* is the uncapped number of out-of-range readings, and qualityScore is
\* max(0, 100 - missingDataPercentage - outlierCount / totalRecords * 100).
C21_SuspiciousListedAndScored ==
    (call = "generateDataQualityReport" /\ Len(weatherData) > 0) =>
        LET r == result.report
            out == OutOfRangeReadings(weatherData)
            count == Cardinality(out)
        IN  /\ r.outlierCount = count
            /\ Len(r.suspiciousValues) = (IF count < 50 THEN count ELSE 50)
            /\ \A p \in out :
                  ReadingsBefore(weatherData, p) < 50 =>
                      r.suspiciousValues[ReadingsBefore(weatherData, p) + 1]
                          = [timestamp |-> weatherData[p[1]].time,
                             variable |-> VariableKeys[p[2]],
                             value |-> weatherData[p[1]][VariableKeys[p[2]]]]
            /\ r.qualityScore
                   = MathMax(N(0),
                             Sub(Sub(N(100), r.missingDataPercentage),
                                 Mul(Div(N(count), N(r.totalRecords)), N(100))))

\* a report of more than 50 out-of-range readings, 50 of them listed
C21_Witness ==
    /\ call = "generateDataQualityReport"
    /\ result.report.outlierCount > 50
    /\ Len(result.report.suspiciousValues) = 50

----------------------------------------------------------------------------
(* Properties of the calls' inputs                                         *)

\* the array calculateStatistics was given in the statistics machine, where
\* the call extracts it from the series
ExtractedArrays == {ExtractVariable(weatherData, k) : k \in KeySet}

InputsKept ==
    /\ weatherData' = weatherData
    /\ asset' = asset
    /\ dataArg' = dataArg
    /\ timestampsArg' = timestampsArg
    /\ \/ values' = values
       \/ values = <<>> /\ weatherData # <<>> /\ values' \in ExtractedArrays

LocationCarried ==
    (call' = "generateAtmosphericResearchData" /\ result'.status = "returned") =>
        /\ arg' \in Locations
        /\ result'.research.location = arg'
        /\ result'.research.weatherData = weatherData

\* C22: no analysis or forecast call mutates its input: after
\* calculateStatistics, calculateCorrelationMatrix, analyzeTrend,
\* detectAnomalies, generateDataQualityReport,
\* generateAtmosphericResearchData, generateSolarForecast or
\* generateWindForecast returns, the series, arrays and variable maps it was
\* given have the length, order and element values they had before the call,
\* and the location is carried into the research result unmodified.
C22_InputsUnchanged == [][InputsKept /\ LocationCarried]_vars

\* calculateStatistics returned for an array whose valid values were not in
\* ascending order
C22_Witness ==
    /\ call = "calculateStatistics"
    /\ result.status = "returned"
    /\ Len(values) > 1
    /\ SelectSeq(values, DIsValid) # SortAscending(SelectSeq(values, DIsValid))

----------------------------------------------------------------------------
(* Properties of the rising part of the wind power curve                   *)

\* ratedCapacity * (v^3 - cutIn^3) / (rated^3 - cutIn^3)
CubicShare(v, a) ==
    Mul(a.ratedCapacity,
        Div(Sub(Cube(v), Cube(CutIn(a))), Sub(Cube(Rated(a)), Cube(CutIn(a)))))

RisingCurve(a) == Lt(CutIn(a), Rated(a)) /\ Gt(a.ratedCapacity, N(0))

InRegionTwo(v, a) == Ge(v, CutIn(a)) /\ Lt(v, Rated(a))

\* C23: in region 2 of the wind power curve (cutIn <= v < rated, with
\* cutIn < rated and ratedCapacity > 0) calculateWindPower returns
\* ratedCapacity * (v^3 - cutIn^3) / (rated^3 - cutIn^3); this value lies in
\* [0, ratedCapacity], is 0 at v = cutIn, and is non-decreasing in v, and the
\* whole curve is non-decreasing in v on [0, cutOut].
C23_RegionTwoCubic ==
    (call = "calculateWindPower" /\ RisingCurve(asset)) =>
        /\ InRegionTwo(arg, asset) =>
              /\ result.number = CubicShare(arg, asset)
              /\ Ge(result.number, N(0))
              /\ Le(result.number, asset.ratedCapacity)
              /\ arg = CutIn(asset) => result.number = N(0)
              /\ \A w \in HubSpeeds :
                    (InRegionTwo(w, asset) /\ Le(arg, w))
                        => Le(result.number, CalculateWindPower(w, asset))
        /\ (Ge(arg, N(0)) /\ Le(arg, CutOut(asset))) =>
              \A w \in HubSpeeds :
                  (Le(arg, w) /\ Le(w, CutOut(asset)))
                      => Le(result.number, CalculateWindPower(w, asset))

\* C23 amended: for cutIn <= v < rated and v <= cutOut (with cutIn < rated
\* and ratedCapacity > 0) calculateWindPower returns
\* ratedCapacity * (v^3 - cutIn^3) / (rated^3 - cutIn^3), a value in
\* [0, ratedCapacity] that is 0 at v = cutIn; for cutIn <= v < rated and
\* v > cutOut it returns 0; and the curve is non-decreasing in v on
\* [0, cutOut], region 2 up to the cut-out speed included.
C23_RegionTwoCubicUpToCutOut ==
    (call = "calculateWindPower" /\ RisingCurve(asset)) =>
        /\ (InRegionTwo(arg, asset) /\ Le(arg, CutOut(asset))) =>
              /\ result.number = CubicShare(arg, asset)
              /\ Ge(result.number, N(0))
              /\ Le(result.number, asset.ratedCapacity)
              /\ arg = CutIn(asset) => result.number = N(0)
        /\ (InRegionTwo(arg, asset) /\ Gt(arg, CutOut(asset))) => result.number = N(0)
        /\ (Ge(arg, N(0)) /\ Le(arg, CutOut(asset))) =>
              \A w \in HubSpeeds :
                  (Le(arg, w) /\ Le(w, CutOut(asset)))
                      => Le(result.number, CalculateWindPower(w, asset))

\* calculateWindPower returned a part of the rated capacity for a speed
\* between cut-in and rated, with a higher speed below the cut-out speed
C23_Witness ==
    /\ call = "calculateWindPower"
    /\ RisingCurve(asset)
    /\ InRegionTwo(arg, asset)
    /\ Gt(result.number, N(0))
    /\ Lt(result.number, asset.ratedCapacity)
    /\ \E w \in HubSpeeds : InRegionTwo(w, asset) /\ Lt(arg, w) /\ Le(w, CutOut(asset))

----------------------------------------------------------------------------
(* Properties of the order statistics of calculateStatistics               *)

ValidValues == SelectSeq(values, DIsValid)

\* x is a valid value with at most k valid values below it and more than k
\* at or below it: element k (from 0) of the values in ascending order
IsElementAt(x, k) ==
    /\ \E i \in Indices(ValidValues) : ValidValues[i] = x
    /\ Cardinality({i \in Indices(ValidValues) : DLt(ValidValues[i], x)}) <= k
    /\ Cardinality({i \in Indices(ValidValues) : DLe(ValidValues[i], x)}) > k

\* max(0, ceil(p / 100 * n) - 1) for n >= 1
NearestRank(p, n) == CHOOSE k \in 0 .. n - 1 : 100 * k < p * n /\ p * n <= 100 * (k + 1)

StatisticsCalledOnValid ==
    call = "calculateStatistics" /\ Len(ValidValues) > 0

TenToFifty == <<FromInt(10), FromInt(20), FromInt(30), FromInt(40), FromInt(50)>>

\* C24: calculateStatistics computes each percentile p in {25, 75, 95} by
\* nearest rank on the ascending-sorted valid values: the element at index
\* max(0, ceil(p/100 * n) - 1), with min = element 0 and max = element n-1;
\* on [10,20,30,40,50] it returns mean 30, median 30, count 5 and
\* missingCount 0.
C24_NearestRankPercentiles ==
    /\ StatisticsCalledOnValid =>
          /\ result.status = "returned"
          /\ IsElementAt(result.statistics.percentile25, NearestRank(25, Len(ValidValues)))
          /\ IsElementAt(result.statistics.percentile75, NearestRank(75, Len(ValidValues)))
          /\ IsElementAt(result.statistics.percentile95, NearestRank(95, Len(ValidValues)))
          /\ IsElementAt(result.statistics.min, 0)
          /\ IsElementAt(result.statistics.max, Len(ValidValues) - 1)
    /\ (call = "calculateStatistics" /\ values = TenToFifty) =>
          /\ result.statistics.mean = FromInt(30)
          /\ result.statistics.median = FromInt(30)
          /\ result.statistics.count = 5
          /\ result.statistics.missingCount = 0

\* calculateStatistics returned three different percentiles, none of them the
\* minimum or the maximum, for values that were not given in order
C24_Witness ==
    /\ StatisticsCalledOnValid
    /\ ValidValues # SortAscending(ValidValues)
    /\ DLt(result.statistics.min, result.statistics.percentile25)
    /\ DLt(result.statistics.percentile25, result.statistics.percentile75)
    /\ DLt(result.statistics.percentile75, result.statistics.percentile95)

\* C26: whenever calculateStatistics sees at least one valid value, its
\* result is ordered: min <= percentile25 <= median <= percentile75 <=
\* percentile95 <= max and min <= mean <= max, where median is the element at
\* index floor(n/2) of the sorted valid values (the upper middle element for
\* even n, not the average of the two middle ones).
C26_StatisticsOrdered ==
    StatisticsCalledOnValid =>
        /\ DLe(result.statistics.min, result.statistics.percentile25)
        /\ DLe(result.statistics.percentile25, result.statistics.median)
        /\ DLe(result.statistics.median, result.statistics.percentile75)
        /\ DLe(result.statistics.percentile75, result.statistics.percentile95)
        /\ DLe(result.statistics.percentile95, result.statistics.max)
        /\ DLe(result.statistics.min, result.statistics.mean)
        /\ DLe(result.statistics.mean, result.statistics.max)
        /\ IsElementAt(result.statistics.median, Len(ValidValues) \div 2)

----------------------------------------------------------------------------
(* Properties of the long-term route                                       *)

LongTermAnswered ==
    call = "POST /api/long-term" /\ result.longTerm.success

\* C25: the long-term analysis route computes each month's average power
\* with the same models as the forecast: for wind it equals
\* calculateWindPower(monthly average speed, asset) over all four regions
\* (0 above cut-out included), and for solar it equals
\* calculateSolarPower(monthly average irradiance, dcCapacity,
\* asset.systemLosses), so that the asset's system losses and cut-out speed
\* affect the result.
C25_LongTermUsesForecastModels ==
    LongTermAnswered =>
        \A month \in 1 .. Months :
            result.longTerm.monthlyAverages[month].averageProduction
                = Mul(MonthlyPowerByModels(asset,
                                           CalculateMonthlyAverages(weatherData)[month]),
                      N(HoursInMonth))

----------------------------------------------------------------------------
(* Properties of the location history                                      *)

History == GetLocationHistory(storage)

\* the ids whose last save has not been followed by a delete or a clear
StoredIds == {id \in DOMAIN savedAt : savedAt[id] # NotStored}

HistoryKept ==
    /\ Len(History) <= HistoryLimit
    /\ \A i, j \in DOMAIN History : History[i].id = History[j].id => i = j
    /\ IdsOf(History) \subseteq StoredIds
    /\ \A id \in StoredIds :
          (\A other \in StoredIds : savedAt[other] <= savedAt[id])
              => (History # <<>> /\ History[1].id = id)
    /\ \A i, j \in DOMAIN History :
          i < j => savedAt[History[i].id] > savedAt[History[j].id]

\* a save of an id the full history does not hold
SavesOneMore ==
    /\ historyCall'.name = "saveLocationToHistory"
    /\ historyCall'.number = historyCall.number + 1
    /\ Len(History) = HistoryLimit
    /\ ~historyCall'.found

OldestStored ==
    CHOOSE id \in IdsOf(History) : \A other \in IdsOf(History) : savedAt[id] <= savedAt[other]

EvictsOldest ==
    SavesOneMore =>
        IdsOf(GetLocationHistory(storage'))
            = (IdsOf(History) \ {OldestStored}) \cup {historyCall'.id}

\* C27: starting from empty storage, after any sequence of
\* saveLocationToHistory, toggleFavorite, updateLocationNickname,
\* deleteLocation and clearLocationHistory calls, the stored location history
\* has at most 20 entries, no two entries share an id, and the entry saved
\* most recently (if not since deleted) is first, the entries following in
\* the order of their last saves; saving a 21st distinct location evicts the
\* entry that was saved least recently.
C27_HistoryBoundedUniqueRecentFirst == [](HistoryKept) /\ [][EvictsOldest]_vars

\* the history is full and an entry saved earlier, never deleted, is gone
C27_Witness ==
    /\ Len(History) = HistoryLimit
    /\ historyCall.name = "saveLocationToHistory"
    /\ \E id \in StoredIds : id \notin IdsOf(History)

Resaves ==
    /\ historyCall'.name = "saveLocationToHistory"
    /\ historyCall'.number = historyCall.number + 1
    /\ historyCall'.found

ReplacedAtFront ==
    Resaves =>
        /\ Len(GetLocationHistory(storage')) = Len(History)
        /\ GetLocationHistory(storage')[1].id = historyCall'.id
        /\ GetLocationHistory(storage')[1].isFavorite = FALSE
        /\ GetLocationHistory(storage')[1].nickname = historyCall'.nickname
        /\ GetLocationHistory(storage')[1].timestamp = clock'
        /\ WithoutId(GetLocationHistory(storage'), historyCall'.id)
              = WithoutId(History, historyCall'.id)

UnknownIdIgnored ==
    (/\ historyCall'.name \in {"toggleFavorite", "updateLocationNickname"}
     /\ historyCall'.number = historyCall.number + 1
     /\ ~historyCall'.found)
        => storage' = storage

\* C28: saveLocationToHistory for a location/asset whose id is already in
\* the history replaces the stored entry by a fresh one at the front with
\* isFavorite = false and the nickname passed in this call (a favourite mark
\* set earlier by toggleFavorite and an earlier nickname are not kept), while
\* every other entry keeps its fields and relative order and the history
\* length is unchanged; toggleFavorite and updateLocationNickname on an id
\* not in the history leave storage unchanged.
C28_ResaveReplacesEntry == [][ReplacedAtFront /\ UnknownIdIgnored]_vars

\* an entry marked favourite was saved again: it is first and unmarked
C28_Witness ==
    /\ historyCall.name = "saveLocationToHistory"
    /\ historyCall.found
    /\ historyCall.wasFavorite
    /\ History[1].id = historyCall.id
    /\ ~History[1].isFavorite
    /\ Len(History) > 1

----------------------------------------------------------------------------
(* Claim C29                                                               *)

\* the list the run was started with
RunLocations == awaiting.locations

ErrorEntries(entries) == {k \in DOMAIN entries : IsDefined(entries[k].error)}

\* 0 <= failed <= completed <= total
ProgressOrdered ==
    progress.present =>
        /\ 0 <= progress.failed
        /\ progress.failed <= progress.completed
        /\ progress.completed <= progress.total

\* while the loop runs, the entries so far are those of the first locations
\* in list order, and the one request out is that of the next location
OneAtATimeInOrder ==
    awaiting.on \in {"fetch", "delay"} =>
        /\ progress.completed = Len(batchResults)
        /\ progress.failed = Cardinality(ErrorEntries(batchResults))
        /\ \A k \in DOMAIN batchResults : batchResults[k].location = RunLocations[k]
        /\ awaiting.i = Len(batchResults) + (IF awaiting.on = "fetch" THEN 1 ELSE 0)
        /\ awaiting.i \in DOMAIN RunLocations
        /\ progress.currentLocation = RunLocations[awaiting.i].name
        /\ isProcessing
        /\ results = <<>>

\* once the loop has finished
RankedWhenFinished ==
    awaiting.on = "returned" =>
        /\ ~isProcessing
        /\ progress.completed = progress.total
        /\ progress.total = Len(RunLocations)
        /\ progress.failed = Cardinality(ErrorEntries(results))
        /\ Len(results) = Len(RunLocations)
        /\ \A i \in DOMAIN RunLocations :
              Cardinality({k \in DOMAIN results : results[k].location = RunLocations[i]}) = 1
        /\ \A k \in DOMAIN results : results[k].rank = k
        /\ \A k \in DOMAIN results :
              k > 1 => Ge(OrZero(results[k - 1].score), OrZero(results[k].score))

\* C29: whatever the forecast requests do, processBatch handles its
\* locations one at a time in list order with 0 <= failed <= completed <=
\* total throughout; when it has finished, completed = total, failed is the
\* number of entries with an error, every location has exactly one entry,
\* and the ranks are 1..n in non-increasing order of score (none: 0).
C29_BatchSequentialAndRanked ==
    ProgressOrdered /\ OneAtATimeInOrder /\ RankedWhenFinished

\* a finished run of three locations with a failure in it, whose best entry
\* was not the first one processed
C29_Witness ==
    /\ awaiting.on = "returned"
    /\ Len(results) >= 3
    /\ progress.failed >= 1
    /\ progress.failed < progress.completed
    /\ results[1].location # RunLocations[1]
    /\ Gt(OrZero(results[1].score), OrZero(results[2].score))

----------------------------------------------------------------------------
(* Claim C30                                                               *)

\* the batch (from 0) a grid index belongs to
BatchNumber(k) == (k - 1) \div BatchSize

Settled(k) == weatherReplies[k] # NoReply

\* the weather requests sent so far
Requested == {k \in DOMAIN weatherReplies : Settled(k) \/ k \in inFlight}

\* the request failed, or returned fewer than hour + 1 samples
DroppedByRule(k) ==
    \/ weatherReplies[k].kind = "rejected"
    \/ /\ weatherReplies[k].kind = "resolved"
       /\ Lt(N(Len(weatherReplies[k].weatherData)), Add(mapRequest.hour, N(1)))

\* the request returned at least hour + 1 samples
Survives(k) ==
    /\ weatherReplies[k].kind = "resolved"
    /\ Ge(N(Len(weatherReplies[k].weatherData)), Add(mapRequest.hour, N(1)))

Survivors == {k \in DOMAIN weatherReplies : Survives(k)}

RECURSIVE InGridOrder(_)
\* the sample points of a set of grid indices, lowest index first
InGridOrder(indices) ==
    IF indices = {} THEN <<>>
    ELSE LET k == CHOOSE i \in indices : \A j \in indices : i <= j
         IN  <<SamplePoint(k - 1)>> \o InGridOrder(indices \ {k})

\* latitude and longitude of the points of a response
PlacesOf(points) ==
    AsSeq([n \in DOMAIN points |->
              [lat |-> points[n].latitude, lon |-> points[n].longitude]])

\* the route has answered a request that passed validation
MapAnswered == mapStep = "answered" /\ mapResponse.status # 400

AtMostFiveInFlight == Cardinality(inFlight) <= BatchSize

BatchesInTurn ==
    \A k \in Requested : \A j \in DOMAIN weatherReplies :
        BatchNumber(j) < BatchNumber(k) => Settled(j)

SurvivorsAnswered ==
    MapAnswered =>
        /\ mapResponse.status \in {200, 404}
        /\ \A k \in DOMAIN weatherReplies :
              DroppedByRule(k) =>
                  \A n \in DOMAIN validPoints :
                      PlacesOf(validPoints)[n] # SamplePoint(k - 1)
        /\ PlacesOf(validPoints) = InGridOrder(Survivors)
        /\ mapResponse.status = 200 => mapResponse.gridPoints = validPoints
        /\ (mapResponse.status = 404 /\ mapResponse.error = "NO_DATA")
              <=> Survivors = {}

\* C30: the national-map route has at most 5 weather requests in flight,
\* sends the requests of a batch only after all requests of the batches
\* before it have settled, drops a grid point whose request fails or
\* returns fewer than hour + 1 samples without failing, lists the surviving
\* points in grid order, and answers NO_DATA (404) exactly when none
\* survived.
C30_BatchedRequestsAndSurvivors ==
    AtMostFiveInFlight /\ BatchesInTurn /\ SurvivorsAnswered

\* a map answered with points of both batches, after a rejected request and
\* a short series were dropped
C30_Witness ==
    /\ MapAnswered
    /\ mapResponse.status = 200
    /\ \E k \in DOMAIN weatherReplies : weatherReplies[k].kind = "rejected"
    /\ \E k \in DOMAIN weatherReplies :
          weatherReplies[k].kind = "resolved" /\ DroppedByRule(k)
    /\ \E k \in Survivors : BatchNumber(k) = 0
    /\ \E k \in Survivors : BatchNumber(k) = 1

====
